---- MODULE Spec2Model ----
(***************************************************************************)
(* Metric resolution (RequestedMetrics.py) and the rules built on it.      *)
(*                                                                         *)
(* The IAction of a profiled unit is a catalog from metric names to        *)
(* values; RequestedMetricsParser.parse walks a batch of MetricRequests,   *)
(* one loop iteration per step, filling a RequestedMetricDict.             *)
(***************************************************************************)
EXTENDS Integers, Sequences, FiniteSets, TLC

VARIABLES
    host_catalog,                   \* the IAction as the host supplied it
    catalog,                        \* self.metrics: the IAction, name -> value
    queried,                        \* names looked up with metrics[name], in order
    requests,                       \* requested_metrics, the batch being parsed
    idx,                            \* position of the for loop in the batch
    data,                           \* parsed_metrics.data: name -> RequestedMetric
    aliasToName,                    \* parsed_metrics.aliasToName
    found_missing_required_metrics,
    found_missing_optional_metrics,
    missing_required_metrics,
    frontend,                       \* calls received by the frontend, in order
    reason,                         \* names joined into the raise_exception message
    pc,                             \* where parse() is: "loop", or how it ended
    rule,                           \* the rule whose apply() runs
    rpc,                            \* where apply() is
    metrics,                        \* the table apply() got from its first parse()
    parent_weights,                 \* fe.receive_dict_from_parent("HighPipeUtilization")
    args,                           \* arguments of a call of get_estimated_speedup
    result,                         \* what that call returned
    previous,                       \* how an earlier parse() of the same requests ended
    graph,                          \* the parents each rule declares
    config,                         \* what the host made of the declared graph
    channel,                        \* per unit: rule -> the dict it sent to its children
    finished,                       \* per unit: the rules that ran in this pass
    active,                         \* per unit: the rule that is running
    received,                       \* what fe.receive_dict_from_parent just returned
    sent                            \* per unit: the dicts sent in this pass, in order

vars == <<host_catalog, catalog, queried, requests, idx, data, aliasToName,
          found_missing_required_metrics, found_missing_optional_metrics,
          missing_required_metrics, frontend, reason, pc,
          rule, rpc, metrics, parent_weights, args, result, previous,
          graph, config, channel, finished, active, received, sent>>

\* The host's side of the evidence channel and of the pass.
host_vars == <<graph, config, channel, finished, active, received, sent>>

\* What parse() never touches.
rule_vars == <<rule, rpc, metrics, parent_weights, args, result, previous, host_vars>>

----------------------------------------------------------------------------
(* Bounds of the model. *)

MaxBatch == 2

\* Metric names a batch may ask for, and the alias strings it may use.  The
\* alias "b" is also a name; "k" is an alias that is no metric's name.
Names == {"a", "b"}

\* Python's None, for an alias, a default value or a metric handle.
None == "None"

AliasStrings == {"b", "k"}

Range(s) == {s[i] : i \in DOMAIN s}

----------------------------------------------------------------------------
(* Importance *)

OPTIONAL == 1

REQUIRED == 2

(* Python values a default_value may have: the type decides the setter. *)
PyNone == [type |-> "NoneType", v |-> 0]

PyInt(i) == [type |-> "int", v |-> i]

PyFloat(x) == [type |-> "float", v |-> x]

PyStr(s) == [type |-> "str", v |-> s]

\* False and True; bool is a subclass of int
PyBool(b) == [type |-> "bool", v |-> IF b THEN 1 ELSE 0]

\* isinstance(value, int)
isinstance_int(value) == value.type \in {"int", "bool"}

MetricRequest(name, alias, importance, default_value, warn_when_missing) ==
    [name |-> name, alias |-> alias, importance |-> importance,
     default_value |-> default_value, warn_when_missing |-> warn_when_missing]

\* MetricRequest(name, alias): the namedtuple's defaults for the other fields.
MetricRequestDefault(name, alias) ==
    MetricRequest(name, alias, REQUIRED, PyFloat(0), TRUE)

\* The default values tried: None, a valid uint, a negative int, a float, a
\* string.
DefaultValues == {PyNone, PyInt(1), PyInt(-1), PyFloat(0), PyStr(7)}

\* Requests a batch is drawn from.  A REQUIRED request keeps the namedtuple's
\* defaults (its default_value and warn_when_missing are never read).
RequestSpace ==
    {MetricRequestDefault(n, al) : n \in Names, al \in AliasStrings \cup {None}}
    \cup
    {MetricRequest(n, al, OPTIONAL, d, TRUE) :
        n \in Names, al \in AliasStrings \cup {None}, d \in DefaultValues}
    \cup
    {MetricRequest(n, al, OPTIONAL, d, FALSE) :
        n \in Names, al \in AliasStrings \cup {None}, d \in {PyNone, PyFloat(0)}}

Batches == UNION {[1..n -> RequestSpace] : n \in 0..MaxBatch}

----------------------------------------------------------------------------
(* The catalog: IAction.__getitem__ / add_metric and the IMetric setters. *)

Absent == [kind |-> "absent", v |-> 0]

\* A value measured by the host.
HostValue == [kind |-> "double", v |-> 42]

Catalogs == [Names -> {Absent, HostValue}]

\* metrics[name] raises KeyError
Missing(cat, name) == cat[name] = Absent

\* self.metrics.add_metric(name): a new entry, no value set yet
add_metric(cat, name) == [cat EXCEPT ![name] = [kind |-> "unset", v |-> 0]]

set_uint64(cat, name, value) == [cat EXCEPT ![name] = [kind |-> "uint64", v |-> value]]

set_double(cat, name, value) == [cat EXCEPT ![name] = [kind |-> "double", v |-> value]]

set_string(cat, name, value) == [cat EXCEPT ![name] = [kind |-> "string", v |-> value]]

----------------------------------------------------------------------------
(* RequestedMetric and RequestedMetricDict *)

\* A metric handle is the name of the catalog entry it refers to, or None.
RequestedMetric(name, metric, importance, alias) ==
    [name |-> name, metric |-> metric,
     importance |-> IF importance = 0 THEN REQUIRED ELSE importance,
     alias |-> alias]

EmptyDict == << >>

\* The result of an operation that may raise: ok is FALSE when it raised.
Raised(exc) == [ok |-> FALSE, value |-> exc]

Returned(value) == [ok |-> TRUE, value |-> value]

\* RequestedMetricDict.__getitem__
getitem(d, a2n, key) ==
    IF key \in DOMAIN d
    THEN Returned(d[key].metric)
    ELSE IF key \in DOMAIN a2n /\ a2n[key] \in DOMAIN d
         THEN Returned(d[a2n[key]].metric)
         ELSE Raised("KeyError")

\* RequestedMetricDict.__contains__
contains(d, a2n, key) == key \in DOMAIN d \/ key \in DOMAIN a2n

\* __setitem__ without the check of the alias: the last insertion wins
setitem_raises_key_only(a2n, key, item) ==
    key # item.name /\ key # item.alias

\* RequestedMetricDict.__setitem__ raises KeyError
setitem_raises(a2n, key, item) ==
    \/ key # item.name /\ key # item.alias
    \/ /\ item.alias # None
       /\ item.alias \in DOMAIN a2n
       /\ a2n[item.alias] # item.name

\* aliasToName after a __setitem__ that does not raise
setitem_alias(a2n, item) ==
    IF item.alias # None
    THEN [k \in DOMAIN a2n \cup {item.alias} |->
             IF k = item.alias THEN item.name ELSE a2n[k]]
    ELSE a2n

\* an item with an alias is registered under the alias only
setitem_data_unaliased_only(d, item) ==
    IF item.alias # None THEN d
    ELSE [k \in DOMAIN d \cup {item.name} |-> IF k = item.name THEN item ELSE d[k]]

\* the backing dict after a __setitem__ that does not raise
setitem_data(d, item) ==
    [k \in DOMAIN d \cup {item.name} |-> IF k = item.name THEN item ELSE d[k]]

\* the alias is registered before the check that rejects the call
setitem_rejected_alias_registers(a2n, key, item) ==
    IF (key = item.name \/ key = item.alias) /\ item.alias # None
    THEN [k \in DOMAIN a2n \cup {item.alias} |->
             IF k = item.alias THEN item.name ELSE a2n[k]]
    ELSE a2n

\* aliasToName after a __setitem__ that raises: both raise statements come
\* before the assignment
setitem_rejected_alias(a2n, key, item) == a2n

\* the backing dict after a __setitem__ that raises: super().__setitem__ is
\* the last statement
setitem_rejected_data(d, key, item) == d

----------------------------------------------------------------------------
(* RequestedMetricsParser *)

\* add_metric is called before default_value is compared with None
fallback_catalog_adds_first(cat, m) ==
    LET value == m.default_value
        added == add_metric(cat, m.name)
    IN  IF isinstance_int(value) /\ value # PyNone /\ value.v >= 0
        THEN set_uint64(added, m.name, value.v)
        ELSE IF value.type = "float" THEN set_double(added, m.name, value.v)
        ELSE IF value.type = "str" THEN set_string(added, m.name, value.v)
        ELSE added

\* _create_fallback_metric: the catalog after the call
fallback_catalog(cat, m) ==
    LET value == m.default_value
        added == add_metric(cat, m.name)
    IN  IF value = PyNone THEN cat
        ELSE IF isinstance_int(value) /\ value.v >= 0 THEN set_uint64(added, m.name, value.v)
        ELSE IF value.type = "float" THEN set_double(added, m.name, value.v)
        ELSE IF value.type = "str" THEN set_string(added, m.name, value.v)
        ELSE added

\* _create_fallback_metric: the handle returned, or ValueError
fallback_metric(m) ==
    LET value == m.default_value
    IN  IF value = PyNone THEN Returned(None)
        ELSE IF \/ isinstance_int(value) /\ value.v >= 0
                \/ value.type = "float"
                \/ value.type = "str"
             THEN Returned(m.name)
             ELSE Raised("ValueError")

\* The id the frontend gives the next message.
NextMsgId(log) == 1 + Len(SelectSeq(log, LAMBDA c : c.op = "message"))

\* self.frontend.message(type, text): no title; arg is the metric the text names
Message(log, type, arg) ==
    Append(log, [op |-> "message", type |-> type, title |-> None, arg |-> arg,
                 id |-> NextMsgId(log)])

ParseInit(batch) ==
    /\ requests = batch
    /\ idx = 1
    /\ data = EmptyDict
    /\ aliasToName = EmptyDict
    /\ found_missing_required_metrics = FALSE
    /\ found_missing_optional_metrics = FALSE
    /\ missing_required_metrics = {}
    /\ reason = << >>
    /\ pc = "loop"

\* One iteration of the for loop of parse(): the request is found
ParseFound ==
    /\ pc = "loop"
    /\ idx <= Len(requests)
    /\ LET metric == requests[idx]
           item == RequestedMetric(metric.name, metric.name, metric.importance, metric.alias)
       IN  /\ ~Missing(catalog, metric.name)
           /\ IF setitem_raises(aliasToName, metric.name, item)
              THEN /\ pc' = "KeyError"
                   /\ UNCHANGED <<idx, data, aliasToName>>
              ELSE /\ data' = setitem_data(data, item)
                   /\ aliasToName' = setitem_alias(aliasToName, item)
                   /\ idx' = idx + 1
                   /\ pc' = pc
    /\ queried' = Append(queried, requests[idx].name)
    /\ UNCHANGED rule_vars
    /\ UNCHANGED <<host_catalog, catalog, requests, found_missing_required_metrics,
                   found_missing_optional_metrics, missing_required_metrics,
                   frontend, reason>>

\* a warning for every missing optional metric that asks for one
issue_warning_each(metric, found_missing_optional) == metric.warn_when_missing

\* parse(): whether the missing optional metric gets the WARNING
issue_warning(metric, found_missing_optional) ==
    metric.warn_when_missing /\ ~found_missing_optional

\* One iteration: MetricNotFoundError with importance OPTIONAL
ParseMissingOptional ==
    /\ pc = "loop"
    /\ idx <= Len(requests)
    /\ LET metric == requests[idx]
           fallback == fallback_metric(metric)
           item == RequestedMetric(metric.name, fallback.value, metric.importance, metric.alias)
           warn == issue_warning(metric, found_missing_optional_metrics)
       IN  /\ Missing(catalog, metric.name)
           /\ metric.importance = OPTIONAL
           /\ catalog' = fallback_catalog(catalog, metric)
           /\ IF ~fallback.ok
              THEN /\ pc' = "ValueError"
                   /\ UNCHANGED <<idx, data, aliasToName, frontend,
                                  found_missing_optional_metrics>>
              ELSE IF setitem_raises(aliasToName, metric.name, item)
              THEN /\ pc' = "KeyError"
                   /\ UNCHANGED <<idx, data, aliasToName, frontend,
                                  found_missing_optional_metrics>>
              ELSE /\ data' = setitem_data(data, item)
                   /\ aliasToName' = setitem_alias(aliasToName, item)
                   /\ frontend' = IF warn
                                  THEN Message(frontend, "WARNING", metric.name)
                                  ELSE frontend
                   /\ found_missing_optional_metrics' =
                          (found_missing_optional_metrics \/ warn)
                   /\ idx' = idx + 1
                   /\ pc' = pc
    /\ queried' = Append(queried, requests[idx].name)
    /\ UNCHANGED rule_vars
    /\ UNCHANGED <<host_catalog, requests, found_missing_required_metrics,
                   missing_required_metrics, reason>>

\* the missing REQUIRED metric is collected without an ERROR message
ParseMissingRequired_silent ==
    /\ pc = "loop"
    /\ idx <= Len(requests)
    /\ LET metric == requests[idx]
       IN  /\ Missing(catalog, metric.name)
           /\ metric.importance = REQUIRED
           /\ found_missing_required_metrics' = TRUE
           /\ missing_required_metrics' = missing_required_metrics \cup {metric.name}
    /\ idx' = idx + 1
    /\ queried' = Append(queried, requests[idx].name)
    /\ UNCHANGED rule_vars
    /\ UNCHANGED <<host_catalog, catalog, requests, data, aliasToName,
                   found_missing_optional_metrics, frontend, reason, pc>>

\* the first missing REQUIRED metric raises at once
ParseMissingRequired_raises_at_once ==
    /\ pc = "loop"
    /\ idx <= Len(requests)
    /\ LET metric == requests[idx]
       IN  /\ Missing(catalog, metric.name)
           /\ metric.importance = REQUIRED
           /\ found_missing_required_metrics' = TRUE
           /\ missing_required_metrics' = {metric.name}
           /\ frontend' = Message(frontend, "ERROR", metric.name)
           /\ reason' = <<metric.name>>
    /\ pc' = "aborted"
    /\ queried' = Append(queried, requests[idx].name)
    /\ UNCHANGED rule_vars
    /\ UNCHANGED <<host_catalog, catalog, requests, idx, data, aliasToName,
                   found_missing_optional_metrics>>

\* One iteration: MetricNotFoundError with importance REQUIRED
ParseMissingRequired ==
    /\ pc = "loop"
    /\ idx <= Len(requests)
    /\ LET metric == requests[idx]
       IN  /\ Missing(catalog, metric.name)
           /\ metric.importance = REQUIRED
           /\ found_missing_required_metrics' = TRUE
           /\ missing_required_metrics' = missing_required_metrics \cup {metric.name}
           /\ frontend' = Message(frontend, "ERROR", metric.name)
    /\ idx' = idx + 1
    /\ queried' = Append(queried, requests[idx].name)
    /\ UNCHANGED rule_vars
    /\ UNCHANGED <<host_catalog, catalog, requests, data, aliasToName,
                   found_missing_optional_metrics, reason, pc>>

\* only one of the names makes it into the message
Orders_first_only(S) == {<<x>> : x \in S}

\* The orders in which ", ".join() may walk a set
Orders(S) ==
    {s \in [1..Cardinality(S) -> S] : \A i, j \in 1..Cardinality(S) : s[i] = s[j] => i = j}

\* parse() returns the table whether or not a REQUIRED metric is missing
ParseEnd_returns ==
    /\ pc = "loop"
    /\ idx > Len(requests)
    /\ pc' = "returned"
    /\ UNCHANGED <<host_catalog, catalog, queried, requests, idx, data, aliasToName,
                   found_missing_required_metrics, found_missing_optional_metrics,
                   missing_required_metrics, frontend, reason>>
    /\ UNCHANGED rule_vars

\* After the loop: NvRules.raise_exception, or return parsed_metrics
ParseEnd ==
    /\ pc = "loop"
    /\ idx > Len(requests)
    /\ IF found_missing_required_metrics
       THEN /\ pc' = "aborted"
            /\ reason' \in Orders(missing_required_metrics)
       ELSE /\ pc' = "returned"
            /\ reason' = reason
    /\ UNCHANGED <<host_catalog, catalog, queried, requests, idx, data, aliasToName,
                   found_missing_required_metrics, found_missing_optional_metrics,
                   missing_required_metrics, frontend>>
    /\ UNCHANGED rule_vars

parse == ParseFound \/ ParseMissingOptional \/ ParseMissingRequired \/ ParseEnd

----------------------------------------------------------------------------
(* The host's evidence channel: fe.send_dict_to_children and                *)
(* fe.receive_dict_from_parent, a store of one dict per rule, kept per      *)
(* profiled unit for the length of one pass.                                *)

Units == {"U", "V"}

\* The unit apply() runs on.
ThisUnit == "U"

\* The rules of a pass: the parent and the two rules that name it.
HostRules == {"HighPipeUtilization", "FPInstructions", "SOLFPRoofline"}

NoRead == [unit |-> "none", parent |-> "none", value |-> << >>]

\* `return []` in every rule
get_parent_rules_identifiers_none(r) == {}

\* get_parent_rules_identifiers of the rules of the repository
get_parent_rules_identifiers(r) ==
    IF r \in {"FPInstructions", "SOLFPRoofline"} THEN {"HighPipeUtilization"} ELSE {}

\* The declared graph, given the parents HighPipeUtilization declares.
DeclaredGraph(parents) ==
    [r \in HostRules |->
        IF r = "HighPipeUtilization" THEN parents ELSE get_parent_rules_identifiers(r)]

\* fe.receive_dict_from_parent(parent) in a rule that runs on unit u: the dict
\* the parent sent last in this pass, empty if it sent none
receive_dict_from_parent(ch, u, parent) ==
    IF parent \in DOMAIN ch[u] THEN ch[u][parent] ELSE << >>

\* the payload is merged into the dict sent before (dict.update)
send_dict_to_children_merge(ch, u, r, payload) ==
    LET old == IF r \in DOMAIN ch[u] THEN ch[u][r] ELSE << >>
        new == [k \in DOMAIN old \cup DOMAIN payload |->
                   IF k \in DOMAIN payload THEN payload[k] ELSE old[k]]
    IN  [ch EXCEPT ![u] = [k \in DOMAIN ch[u] \cup {r} |->
                              IF k = r THEN new ELSE ch[u][k]]]

\* one store for all units
send_dict_to_children_global(ch, u, r, payload) ==
    [v \in DOMAIN ch |-> [k \in DOMAIN ch[v] \cup {r} |->
                             IF k = r THEN payload ELSE ch[v][k]]]

\* fe.send_dict_to_children(payload) in rule r that runs on unit u
send_dict_to_children(ch, u, r, payload) ==
    [ch EXCEPT ![u] = [k \in DOMAIN ch[u] \cup {r} |->
                          IF k = r THEN payload ELSE ch[u][k]]]

\* No pass is under way and nothing was sent.
HostIdle ==
    /\ graph = DeclaredGraph({})
    /\ config = "ok"
    /\ channel = [u \in Units |-> << >>]
    /\ finished = [u \in Units |-> {}]
    /\ active = [u \in Units |-> "none"]
    /\ received = NoRead
    /\ sent = [u \in Units |-> << >>]

----------------------------------------------------------------------------
(* One parse() call on an arbitrary batch and catalog. *)

NoRule == "none"

NoTable == [data |-> EmptyDict, aliasToName |-> EmptyDict]

NoCall == [type |-> "none"]

\* No rule runs and get_estimated_speedup is not called.
RuleIdle ==
    /\ rule = NoRule
    /\ rpc = "none"
    /\ metrics = NoTable
    /\ parent_weights = << >>

SpeedupIdle ==
    /\ args = NoCall
    /\ result = NoCall
    /\ previous = NoCall

ParserInit ==
    /\ host_catalog \in Catalogs
    /\ catalog = host_catalog
    /\ queried = << >>
    /\ frontend = << >>
    /\ RuleIdle
    /\ SpeedupIdle
    /\ HostIdle
    /\ \E batch \in Batches : ParseInit(batch)

ParserNext == parse

ParserSpec == ParserInit /\ [][ParserNext]_vars

----------------------------------------------------------------------------
(* FPInstructions.get_estimated_speedup.  Floats are kept as exact          *)
(* fractions num/den.                                                       *)

MaxCount == 3

Rat(n, d) == [num |-> n, den |-> d]

SpeedupType_LOCAL == "LOCAL"

SpeedupType_GLOBAL == "GLOBAL"

\* The weights HighPipeUtilization may have sent: any of the two keys, each a
\* percentage.
WeightKeys == {"fp32_pipeline_utilization_pct", "fp64_pipeline_utilization_pct"}

WeightValues == {0, 50}

ParentWeights == UNION {[K -> {PyFloat(w) : w \in WeightValues}] : K \in SUBSET WeightKeys}

\* "fp{}_pipeline_utilization_pct".format(fp_type)
parent_weight_name(fp_type) ==
    IF fp_type = 32 THEN "fp32_pipeline_utilization_pct"
    ELSE "fp64_pipeline_utilization_pct"

\* parent_weights.get(parent_weight_name, 100): a weight is made up when the
\* parent sent none
pipeline_utilization_pct_default(weights, fp_type) ==
    IF parent_weight_name(fp_type) \in DOMAIN weights
    THEN weights[parent_weight_name(fp_type)]
    ELSE PyFloat(100)

\* apply(): pipeline_utilization_pct, None unless the parent sent the weight
pipeline_utilization_pct(weights, fp_type) ==
    IF parent_weight_name(fp_type) \in DOMAIN weights
    THEN weights[parent_weight_name(fp_type)]
    ELSE PyNone

\* `if pipeline_utilization_pct:` a weight of 0 counts as no weight
get_estimated_speedup_truthy(pct, fused_instructions, non_fused_instructions) ==
    LET all_instructions == non_fused_instructions + fused_instructions
    IN  IF all_instructions = 0
        THEN [type |-> "ZeroDivisionError", value |-> Rat(0, 1)]
        ELSE IF pct # PyNone /\ pct.v # 0
        THEN [type |-> "GLOBAL",
              value |-> Rat(non_fused_instructions * pct.v, 2 * all_instructions)]
        ELSE [type |-> "LOCAL",
              value |-> Rat(non_fused_instructions * 100, 2 * all_instructions)]

\* the estimate is called GLOBAL whether or not the weight is there
get_estimated_speedup_global(pct, fused_instructions, non_fused_instructions) ==
    LET all_instructions == non_fused_instructions + fused_instructions
    IN  IF all_instructions = 0
        THEN [type |-> "ZeroDivisionError", value |-> Rat(0, 1)]
        ELSE [type |-> "GLOBAL",
              value |-> Rat(non_fused_instructions * (IF pct # PyNone THEN pct.v ELSE 100),
                            2 * all_instructions)]

get_estimated_speedup(pct, fused_instructions, non_fused_instructions) ==
    LET all_instructions == non_fused_instructions + fused_instructions
        \* improvement_local = 0.5 * (non_fused / all) = non_fused / (2 * all)
    IN  IF all_instructions = 0
        THEN [type |-> "ZeroDivisionError", value |-> Rat(0, 1)]
        ELSE IF pct # PyNone
        THEN [type |-> SpeedupType_GLOBAL,
              value |-> Rat(non_fused_instructions * pct.v, 2 * all_instructions)]
        ELSE [type |-> SpeedupType_LOCAL,
              value |-> Rat(non_fused_instructions * 100, 2 * all_instructions)]

\* The calls tried: any weights, both precisions, any counts with an
\* instruction executed (apply() calls only with non_fused > 0 or fused > 0).
SpeedupCalls ==
    {c \in [parent_weights : ParentWeights, fp_type : {32, 64},
            fused : 0..MaxCount, non_fused : 0..MaxCount] :
        c.fused + c.non_fused > 0}

\* `if parent_weights.get("fp64_pipeline_utilization_pct"):` a weight of 0
\* counts as no weight
SOLFPRoofline_get_estimated_speedup_truthy(weights, achieved_fp32, achieved_fp64, peak_fp32, peak_fp64) ==
    IF peak_fp32 = 0 THEN [type |-> "ZeroDivisionError", value |-> Rat(0, 1)]
    ELSE IF peak_fp64 > peak_fp32
    THEN [type |-> "LOCAL", value |-> Rat(0, 1)]
    ELSE IF achieved_fp32 + achieved_fp64 = 0
    THEN [type |-> "ZeroDivisionError", value |-> Rat(0, 1)]
    ELSE LET num == achieved_fp64 * (peak_fp32 - peak_fp64)
             den == (achieved_fp32 + achieved_fp64) * peak_fp32
         IN  IF /\ "fp64_pipeline_utilization_pct" \in DOMAIN weights
                /\ weights["fp64_pipeline_utilization_pct"].v # 0
             THEN [type |-> "GLOBAL",
                   value |-> Rat(num * weights["fp64_pipeline_utilization_pct"].v, den)]
             ELSE [type |-> "LOCAL", value |-> Rat(num * 100, den)]

\* get_estimated_speedup of SpeedOfLight_Roofline.py; the counts and peaks are
\* not negative
SOLFPRoofline_get_estimated_speedup(weights, achieved_fp32, achieved_fp64, peak_fp32, peak_fp64) ==
    \* peak_fp64 / peak_fp32 > 1
    IF peak_fp32 = 0 THEN [type |-> "ZeroDivisionError", value |-> Rat(0, 1)]
    ELSE IF peak_fp64 > peak_fp32
    THEN [type |-> SpeedupType_LOCAL, value |-> Rat(0, 1)]
    ELSE IF achieved_fp32 + achieved_fp64 = 0
    THEN [type |-> "ZeroDivisionError", value |-> Rat(0, 1)]
    ELSE \* improvement_local =
         \*     (achieved_fp64 / (achieved_fp32 + achieved_fp64)) * (1 - peak_fp64 / peak_fp32)
         LET num == achieved_fp64 * (peak_fp32 - peak_fp64)
             den == (achieved_fp32 + achieved_fp64) * peak_fp32
         IN  IF "fp64_pipeline_utilization_pct" \in DOMAIN weights
             THEN [type |-> SpeedupType_GLOBAL,
                   value |-> Rat(num * weights["fp64_pipeline_utilization_pct"].v, den)]
             ELSE [type |-> SpeedupType_LOCAL, value |-> Rat(num * 100, den)]

\* The calls of SOLFPRoofline's get_estimated_speedup tried: any weights, any
\* achieved counts and peaks.
RooflineCalls ==
    [parent_weights : ParentWeights,
     achieved_fp32 : 0..MaxCount, achieved_fp64 : 0..MaxCount,
     peak_fp32 : 0..MaxCount, peak_fp64 : 0..MaxCount]

\* apply() line 182 of SpeedOfLight_Roofline.py: the call
SOLFPRoofline_estimate ==
    /\ "peak_fp32" \in DOMAIN args
    /\ result = NoCall
    /\ result' = SOLFPRoofline_get_estimated_speedup(
                     args.parent_weights, args.achieved_fp32, args.achieved_fp64,
                     args.peak_fp32, args.peak_fp64)
    /\ UNCHANGED <<host_catalog, catalog, queried, requests, idx, data, aliasToName,
                   found_missing_required_metrics, found_missing_optional_metrics,
                   missing_required_metrics, frontend, reason, pc,
                   rule, rpc, metrics, parent_weights, args, previous, host_vars>>

\* apply() lines 174-178: pick the weight of the precision and estimate
FPInstructions_estimate ==
    /\ "fp_type" \in DOMAIN args
    /\ result = NoCall
    /\ result' = get_estimated_speedup(
                     pipeline_utilization_pct(args.parent_weights, args.fp_type),
                     args.fused, args.non_fused)
    /\ UNCHANGED <<host_catalog, catalog, queried, requests, idx, data, aliasToName,
                   found_missing_required_metrics, found_missing_optional_metrics,
                   missing_required_metrics, frontend, reason, pc,
                   rule, rpc, metrics, parent_weights, args, previous, host_vars>>

SpeedupInit ==
    /\ host_catalog = [n \in Names |-> Absent]
    /\ catalog = host_catalog
    /\ queried = << >>
    /\ frontend = << >>
    /\ ParseInit(<< >>)
    /\ RuleIdle
    /\ HostIdle
    /\ args \in SpeedupCalls \cup RooflineCalls
    /\ result = NoCall
    /\ previous = NoCall

SpeedupNext == FPInstructions_estimate \/ SOLFPRoofline_estimate

SpeedupSpec == SpeedupInit /\ [][SpeedupNext]_vars

----------------------------------------------------------------------------
(* The rules.  apply() runs parse() on the rule's requested_metrics, then   *)
(* reads the metrics and calls the frontend; the values it reads are the    *)
(* host's measurements, drawn where they are read.                          *)

MaxAbsent == 2

\* Sets of at most k of the names.
AtMost(names, k) ==
    LET grow[i \in 0..k] ==
            IF i = 0 THEN {{}}
            ELSE grow[i - 1] \cup {S \cup {x} : S \in grow[i - 1], x \in names}
    IN  grow[k]

\* The catalogs of a profiled unit that lacks at most MaxAbsent of the names.
CatalogsOver(names) ==
    {[n \in names |-> IF n \in S THEN Absent ELSE HostValue] : S \in AtMost(names, MaxAbsent)}

NamesOf(batch) == {batch[i].name : i \in DOMAIN batch}

\* parse(batch) begins: a fresh RequestedMetricDict and fresh flags
StartParse(batch) ==
    /\ requests' = batch
    /\ idx' = 1
    /\ data' = EmptyDict
    /\ aliasToName' = EmptyDict
    /\ found_missing_required_metrics' = FALSE
    /\ found_missing_optional_metrics' = FALSE
    /\ missing_required_metrics' = {}
    /\ reason' = << >>
    /\ pc' = "loop"

\* The parser is not running.
ParseIdle ==
    /\ requests = << >>
    /\ idx = 1
    /\ data = EmptyDict
    /\ aliasToName = EmptyDict
    /\ found_missing_required_metrics = FALSE
    /\ found_missing_optional_metrics = FALSE
    /\ missing_required_metrics = {}
    /\ reason = << >>
    /\ pc = "idle"

parse_vars == <<requests, idx, data, aliasToName, found_missing_required_metrics,
                found_missing_optional_metrics, missing_required_metrics, reason, pc>>

\* The table parse() just returned.
Table == [data |-> data, aliasToName |-> aliasToName]

\* table[key]: the IMetric handle, or None
get(table, key) == getitem(table.data, table.aliasToName, key).value

\* fe.message(type, text, title)
fe_message(log, type, title) ==
    Append(log, [op |-> "message", type |-> type, title |-> title, arg |-> None,
                 id |-> NextMsgId(log)])

\* an id that no fe.message has returned yet
msg_id_unreturned(log) == NextMsgId(log)

\* the id the last fe.message returned
msg_id(log) == NextMsgId(log) - 1

\* fe.speedup(msg_id, type, value)
fe_speedup(log, id, type, value) ==
    Append(log, [op |-> "speedup", type |-> type, title |-> None, arg |-> value, id |-> id])

\* fe.focus_metric(msg_id, name, value, severity, hint)
fe_focus_metric(log, id, name, severity) ==
    Append(log, [op |-> "focus_metric", type |-> severity, title |-> None, arg |-> name,
                 id |-> id])

\* fe.generate_table(msg_id, ...) and the fe.source_marker of its aggregate
fe_table_and_markers(log, id) ==
    Append(Append(log, [op |-> "generate_table", type |-> None, title |-> None,
                        arg |-> None, id |-> id]),
           [op |-> "source_marker", type |-> "OPTIMIZATION", title |-> None,
            arg |-> None, id |-> 0])

\* the call of fe.send_dict_to_children is left out
fe_send_dict_to_children_none(log, payload) == log

\* fe.send_dict_to_children(payload)
fe_send_dict_to_children(log, payload) ==
    Append(log, [op |-> "send_dict_to_children", type |-> None, title |-> None,
                 arg |-> payload, id |-> 0])

\* Instruction counts a counter may hold.
Counts == {0, 1, 4, 5}

----------------------------------------------------------------------------
(* FPInstructions.py *)

FPInstructions_requested_metrics == <<
    MetricRequest("inst_executed", None, OPTIONAL, PyNone, TRUE),
    MetricRequest("sass__inst_executed_per_opcode", None, OPTIONAL, PyNone, FALSE) >>

\* One round of the loop over fp_types in apply()
FPInstructions_analyze(log, weights, fp_type, non_fused, fused, rows) ==
    \* ratio = (non_fused / (non_fused + fused)) / 2 > 0.1
    IF (non_fused > 0 \/ fused > 0) /\ 10 * non_fused > 2 * (non_fused + fused)
    THEN LET pct == pipeline_utilization_pct(weights, fp_type)
             estimate == get_estimated_speedup(pct, fused, non_fused)
             l1 == fe_message(log, "OPTIMIZATION",
                              IF fp_type = 32 THEN "FP32 Non-Fused Instructions"
                              ELSE "FP64 Non-Fused Instructions")
             id == msg_id(l1)
             l2 == fe_speedup(l1, id, estimate.type, estimate.value)
             l3 == IF rows THEN fe_table_and_markers(l2, id) ELSE l2
             l4 == fe_focus_metric(l3, id, "sass__inst_executed_per_opcode", "HIGH")
         IN  IF pct # PyNone
             THEN fe_focus_metric(l4, id,
                      IF fp_type = 32
                      THEN "sm__pipe_fma_cycles_active.avg.pct_of_peak_sustained_active"
                      ELSE "sm__pipe_fp64_cycles_active.avg.pct_of_peak_sustained_active",
                      "LOW")
             ELSE l4
    ELSE log

\* apply() after parse() returned
FPInstructions_apply ==
    /\ rule = "FPInstructions"
    /\ rpc = "parse1"
    /\ pc = "returned"
    /\ IF \E n \in DOMAIN data : data[n].metric = None
       THEN /\ frontend' = frontend
            /\ parent_weights' = parent_weights
       ELSE /\ parent_weights' =
                   receive_dict_from_parent(channel, ThisUnit, "HighPipeUtilization")
            /\ \E nf32 \in Counts, f32 \in Counts, nf64 \in Counts, f64 \in Counts,
                  rows32 \in BOOLEAN, rows64 \in BOOLEAN :
                   frontend' = FPInstructions_analyze(
                                   FPInstructions_analyze(frontend, parent_weights', 32,
                                                          nf32, f32, rows32),
                                   parent_weights', 64, nf64, f64, rows64)
    /\ rpc' = "returned"
    /\ UNCHANGED <<host_catalog, catalog, queried, rule, metrics,
                   args, result, previous, host_vars>>
    /\ UNCHANGED parse_vars

----------------------------------------------------------------------------
(* Tile.py *)

TileAnalysis_requested_metrics == <<
    MetricRequest("launch__execution_model", "launch_execution_model", OPTIONAL, PyNone, TRUE),
    MetricRequest("launch__user_grid_size", "user_grid_size", OPTIONAL, PyNone, FALSE),
    MetricRequest("launch__grid_size", "grid_size", OPTIONAL, PyNone, FALSE),
    MetricRequest("launch__cluster_size", "cluster_size", OPTIONAL, PyNone, FALSE),
    MetricRequest("sm__pipe_tma_cycles_active.avg.pct_of_peak_sustained_elapsed",
                  "tma_utilization", OPTIONAL, PyNone, FALSE),
    MetricRequest("sm__pipe_tc_cycles_active.avg.pct_of_peak_sustained_elapsed",
                  "tensor_core_pipe_utilization", OPTIONAL, PyNone, FALSE) >>

\* The "Tile Mapping" part of apply()
TileAnalysis_mapping(log, table, user_grid_size, grid_size, cluster_size) ==
    IF get(table, "cluster_size") # None /\ user_grid_size > 0 /\ grid_size > 0
    THEN IF grid_size = user_grid_size /\ cluster_size > 1
         THEN fe_message(log, "OK", "Tile Mapping")
         ELSE IF grid_size = user_grid_size
         THEN fe_message(log, "OK", "Tile Mapping")
         ELSE LET l1 == fe_message(log, "OPTIMIZATION", "Tile Mapping")
                  l2 == fe_focus_metric(l1, msg_id(l1), get(table, "user_grid_size"), "HIGH")
              IN  fe_focus_metric(l2, msg_id(l1), get(table, "grid_size"), "HIGH")
    ELSE log

\* The resource utilization part of apply()
TileAnalysis_utilization(log, table, tensor_core, tma) ==
    IF get(table, "tensor_core_pipe_utilization") # None /\ tensor_core = 0
    THEN LET l1 == fe_message(log, "OPTIMIZATION", "Tensor Core Unused")
         IN  fe_focus_metric(l1, msg_id(l1), get(table, "tensor_core_pipe_utilization"), "HIGH")
    ELSE IF get(table, "tma_utilization") # None /\ tma = 0
    THEN LET l1 == fe_message(log, "OPTIMIZATION", "Tensor Memory Accelerator Unused")
         IN  fe_focus_metric(l1, msg_id(l1), get(table, "tma_utilization"), "HIGH")
    ELSE log

\* apply() after parse() returned
TileAnalysis_apply ==
    /\ rule = "TileAnalysis"
    /\ rpc = "parse1"
    /\ pc = "returned"
    /\ \E execution_model \in {"SIMT", "Tile"}, user_grid_size \in {0, 1, 2},
          grid_size \in {0, 1, 2}, cluster_size \in {1, 2},
          tensor_core \in {0, 1}, tma \in {0, 1} :
           IF \/ get(Table, "launch_execution_model") = None
              \/ execution_model = "SIMT"
              \/ get(Table, "user_grid_size") = None
              \/ get(Table, "grid_size") = None
           THEN frontend' = frontend
           ELSE frontend' = TileAnalysis_utilization(
                                TileAnalysis_mapping(frontend, Table, user_grid_size,
                                                     grid_size, cluster_size),
                                Table, tensor_core, tma)
    /\ rpc' = "returned"
    /\ UNCHANGED <<host_catalog, catalog, queried, rule, metrics, parent_weights,
                   args, result, previous, host_vars>>
    /\ UNCHANGED parse_vars

----------------------------------------------------------------------------
(* PCSamplingData.py *)

PCSamplingData_requested_metrics == <<
    MetricRequestDefault("gpc__cycles_elapsed.max", "duration"),
    MetricRequest("smsp__pcsamp_sample_count", "count", OPTIONAL, PyNone, FALSE),
    MetricRequest("smsp__pcsamp_interval_cycles", "interval", OPTIONAL, PyNone, FALSE),
    MetricRequest("smsp__pcsamp_buffer_overflow", "buffer_overflow", OPTIONAL, PyNone, FALSE),
    MetricRequest("smsp__pcsamp_buffer_size_bytes", "buffer_size", OPTIONAL, PyNone, FALSE),
    MetricRequest("smsp__pcsamp_dropped_bytes", "dropped_bytes", OPTIONAL, PyNone, FALSE) >>

\* The three warnings of apply()
PCSamplingData_warnings(log, table, dropped, overflow, sample_count) ==
    LET l1 == IF get(table, "dropped_bytes") # None /\ dropped # 0
              THEN fe_message(log, "WARNING", "Dropped Samples") ELSE log
        l2 == IF get(table, "buffer_overflow") # None /\ overflow # 0
              THEN fe_message(l1, "WARNING", "Buffer Overflow") ELSE l1
    IN  IF sample_count = 0 THEN fe_message(l2, "WARNING", "No Samples") ELSE l2

\* apply() after parse() returned
PCSamplingData_apply ==
    /\ rule = "PCSamplingData"
    /\ rpc = "parse1"
    /\ pc = "returned"
    /\ \E interval \in {0, 1}, dropped \in {0, 1}, overflow \in {0, 1},
          sample_count \in {0, 1} :
           IF get(Table, "interval") = None \/ interval = 0
           THEN frontend' = frontend /\ rpc' = "returned"
           ELSE IF get(Table, "count") = None \/ get(Table, "buffer_size") = None
           THEN \* None has no value()
                frontend' = frontend /\ rpc' = "AttributeError"
           ELSE /\ frontend' = PCSamplingData_warnings(frontend, Table, dropped,
                                                       overflow, sample_count)
                /\ rpc' = "returned"
    /\ UNCHANGED <<host_catalog, catalog, queried, rule, metrics, parent_weights,
                   args, result, previous, host_vars>>
    /\ UNCHANGED parse_vars

----------------------------------------------------------------------------
(* SpeedOfLight.py *)

SOLBottleneck_requested_metrics == <<
    MetricRequestDefault("sm__throughput.avg.pct_of_peak_sustained_elapsed", "sm_sol_pct"),
    MetricRequest("gpu__compute_memory_throughput.avg.pct_of_peak_sustained_elapsed",
                  "mem_sol_pct", OPTIONAL, PyNone, FALSE),
    MetricRequest("breakdown:gpu__compute_memory_throughput.avg.pct_of_peak_sustained_elapsed",
                  "breakdown_memory", OPTIONAL, PyNone, FALSE),
    MetricRequest("launch__waves_per_multiprocessor", "num_waves", OPTIONAL, PyNone, FALSE),
    MetricRequest("launch__uses_nvlink_centric_scheduling", "nvlink_scheduling",
                  OPTIONAL, PyNone, FALSE),
    MetricRequest("launch__uses_green_context", "is_green_context",
                  OPTIONAL, PyBool(FALSE), FALSE) >>

\* Values the breakdown metric may hold, already split at the commas.
BreakdownValues == {
    <<"dram__throughput.avg.pct_of_peak_sustained_elapsed">>,
    <<"dram__throughput.avg.pct_of_peak_sustained_elapsed",
      "lts__throughput.avg.pct_of_peak_sustained_elapsed">> }

BreakdownNames == UNION {Range(v) : v \in BreakdownValues}

\* get_breakdown_metrics: one MetricRequest(metric_name) per name
breakdown_requests(names) == [i \in DOMAIN names |-> MetricRequestDefault(names[i], None)]

\* Throughput percentages a unit may show.
Pcts == {50, 70, 75, 90}

\* apply() after the first parse() returned, up to get_breakdown_metrics
SOLBottleneck_apply_breakdown ==
    /\ rule = "SOLBottleneck"
    /\ rpc = "parse1"
    /\ pc = "returned"
    /\ IF get(Table, "mem_sol_pct") = None \/ get(Table, "breakdown_memory") = None
       THEN /\ rpc' = "returned"
            /\ UNCHANGED metrics
            /\ UNCHANGED parse_vars
       ELSE /\ rpc' = "parse2"
            /\ metrics' = Table
            /\ \E value \in BreakdownValues : StartParse(breakdown_requests(value))
    /\ UNCHANGED <<host_catalog, catalog, queried, frontend, rule, parent_weights,
                   args, result, previous, host_vars>>

\* The primary finding of apply(): its message and focus metrics
SOLBottleneck_primary(log, table, sm_sol_pct, mem_sol_pct, num_waves) ==
    LET sm_name == get(table, "sm_sol_pct")
        mem_name == get(table, "mem_sol_pct")
        diff == IF sm_sol_pct >= mem_sol_pct THEN sm_sol_pct - mem_sol_pct
                ELSE mem_sol_pct - sm_sol_pct
    IN  IF sm_sol_pct < 80 /\ mem_sol_pct < 80
        THEN IF sm_sol_pct < 60 /\ mem_sol_pct < 60
             THEN IF get(table, "num_waves") # None /\ num_waves < 1
                  THEN LET l1 == fe_message(log, "OPTIMIZATION", "Small Grid")
                       IN  fe_focus_metric(l1, msg_id(l1), get(table, "num_waves"), "HIGH")
                  ELSE LET l1 == fe_message(log, "OPTIMIZATION", "Latency Issue")
                           l2 == fe_focus_metric(l1, msg_id(l1), sm_name, "HIGH")
                       IN  fe_focus_metric(l2, msg_id(l1), mem_name, "HIGH")
             ELSE IF diff >= 10
             THEN IF sm_sol_pct > mem_sol_pct
                  THEN LET l1 == fe_message(log, "OPTIMIZATION", "High Compute Throughput")
                       IN  fe_focus_metric(l1, msg_id(l1), sm_name, "LOW")
                  ELSE LET l1 == fe_message(log, "OPTIMIZATION", "High Memory Throughput")
                       IN  fe_focus_metric(l1, msg_id(l1), mem_name, "LOW")
             ELSE fe_message(log, "OK", "Balanced Throughput")
        ELSE fe_message(log, "OK", "High Throughput")

\* The NVLink warning of apply()
SOLBottleneck_nvlink(log, table, sm_sol_pct, nvlink_scheduling) ==
    IF sm_sol_pct < 80 /\ get(table, "nvlink_scheduling") # None /\ nvlink_scheduling # 0
    THEN LET l1 == fe_message(log, "WARNING", "NVLink-Centric Scheduling")
             l2 == fe_focus_metric(l1, msg_id(l1), get(table, "nvlink_scheduling"), "HIGH")
         IN  fe_focus_metric(l2, msg_id(l1), get(table, "sm_sol_pct"), "DEFAULT")
    ELSE log

\* The weights sent to the child rules, each a fraction of 100
SOLBottleneck_weights(sm_sol_pct, mem_sol_pct) ==
    [compute_throughput_normalized |-> Rat(sm_sol_pct, 100),
     memory_throughput_normalized |-> Rat(mem_sol_pct, 100),
     max_throughput_normalized |->
         Rat(IF sm_sol_pct >= mem_sol_pct THEN sm_sol_pct ELSE mem_sol_pct, 100)]

\* apply() after get_breakdown_metrics returned
SOLBottleneck_apply ==
    /\ rule = "SOLBottleneck"
    /\ rpc = "parse2"
    /\ pc = "returned"
    /\ \E sm_sol_pct \in Pcts, mem_sol_pct \in Pcts, num_waves \in {0, 2},
          nvlink_scheduling \in {0, 1} :
           LET payload == SOLBottleneck_weights(sm_sol_pct, mem_sol_pct)
           IN  /\ frontend' = fe_send_dict_to_children(
                                  SOLBottleneck_nvlink(
                                      SOLBottleneck_primary(frontend, metrics, sm_sol_pct,
                                                            mem_sol_pct, num_waves),
                                      metrics, sm_sol_pct, nvlink_scheduling),
                                  payload)
               /\ channel' = send_dict_to_children(channel, ThisUnit, rule, payload)
               /\ sent' = [sent EXCEPT ![ThisUnit] =
                               Append(@, [rule |-> rule, payload |-> payload])]
    /\ rpc' = "returned"
    /\ UNCHANGED <<host_catalog, catalog, queried, rule, metrics, parent_weights,
                   args, result, previous>>
    /\ UNCHANGED <<graph, config, finished, active, received>>
    /\ UNCHANGED parse_vars

----------------------------------------------------------------------------
(* SpeedOfLight_Roofline.py *)

SOLFPRoofline_requested_metrics == <<
    MetricRequestDefault("device__attribute_compute_capability_major", "cc_major"),
    MetricRequestDefault("device__attribute_compute_capability_minor", "cc_minor"),
    MetricRequest("inst_executed", None, OPTIONAL, PyNone, FALSE),
    MetricRequestDefault("sm__sass_thread_inst_executed_op_ffma_pred_on.sum.peak_sustained",
                         "inst_executed_ffma_peak"),
    MetricRequestDefault("sm__sass_thread_inst_executed_op_dfma_pred_on.sum.peak_sustained",
                         "inst_executed_dfma_peak"),
    MetricRequestDefault("smsp__sass_thread_inst_executed_op_fadd_pred_on.sum.per_cycle_elapsed",
                         "inst_executed_fadd"),
    MetricRequestDefault("smsp__sass_thread_inst_executed_op_fmul_pred_on.sum.per_cycle_elapsed",
                         "inst_executed_fmul"),
    MetricRequestDefault("smsp__sass_thread_inst_executed_op_ffma_pred_on.sum.per_cycle_elapsed",
                         "inst_executed_ffma"),
    MetricRequestDefault("smsp__sass_thread_inst_executed_op_dadd_pred_on.sum.per_cycle_elapsed",
                         "inst_executed_dadd"),
    MetricRequestDefault("smsp__sass_thread_inst_executed_op_dmul_pred_on.sum.per_cycle_elapsed",
                         "inst_executed_dmul"),
    MetricRequestDefault("smsp__sass_thread_inst_executed_op_dfma_pred_on.sum.per_cycle_elapsed",
                         "inst_executed_dfma"),
    MetricRequest("launch__uses_green_context", "is_green_context",
                  OPTIONAL, PyBool(FALSE), FALSE) >>

SOLFPRoofline_requested_metrics_gb10x == <<
    MetricRequestDefault("smsp__sass_thread_inst_executed_op_fadd2_pred_on.sum.per_cycle_elapsed",
                         "inst_executed_fadd2"),
    MetricRequestDefault("smsp__sass_thread_inst_executed_op_fmul2_pred_on.sum.per_cycle_elapsed",
                         "inst_executed_fmul2"),
    MetricRequestDefault("smsp__sass_thread_inst_executed_op_ffma2_pred_on.sum.per_cycle_elapsed",
                         "inst_executed_ffma2") >>

\* Per-cycle counts and per-thread peaks a unit may show.
PerCycle == {0, 1}

Peaks == {1, 4}

\* apply() from the utilization thresholds on
SOLFPRoofline_report(log, table, weights, achieved_fp32, achieved_fp64, peak_fp32, peak_fp64, rows) ==
    \* achieved_fp32_pct < 0.60 and achieved_fp64_pct > 0.15
    IF 100 * achieved_fp32 < 60 * peak_fp32 /\ 100 * achieved_fp64 > 15 * peak_fp64
    THEN LET l1 == fe_message(log, "OPTIMIZATION", "FP64/32 Utilization")
             id == msg_id(l1)
             estimate == SOLFPRoofline_get_estimated_speedup(
                             weights, achieved_fp32, achieved_fp64, peak_fp32, peak_fp64)
             l2 == fe_speedup(l1, id, estimate.type, estimate.value)
             l3 == IF estimate.value.num > 0
                   THEN fe_focus_metric(
                            fe_focus_metric(
                                fe_focus_metric(l2, id, get(table, "inst_executed_dadd"), "HIGH"),
                                id, get(table, "inst_executed_dmul"), "HIGH"),
                            id, get(table, "inst_executed_dfma"), "HIGH")
                   ELSE l2
         IN  IF get(table, "inst_executed") # None /\ rows
             THEN fe_table_and_markers(l3, id)
             ELSE l3
    ELSE IF 100 * achieved_fp64 > 60 * peak_fp64 /\ 100 * achieved_fp32 > 60 * peak_fp32
    THEN fe_message(log, "OPTIMIZATION", "High FP Utilization")
    ELSE fe_message(log, "OK", "Roofline Analysis")

\* apply() after the first parse() returned: on a GB10x device parse the extra
\* metrics, otherwise report
SOLFPRoofline_apply ==
    /\ rule = "SOLFPRoofline"
    /\ rpc = "parse1"
    /\ pc = "returned"
    /\ parent_weights' = receive_dict_from_parent(channel, ThisUnit, "HighPipeUtilization")
    /\ \E gb10x \in BOOLEAN :
           IF gb10x
           THEN /\ rpc' = "parse2"
                /\ metrics' = Table
                /\ StartParse(SOLFPRoofline_requested_metrics_gb10x)
                /\ UNCHANGED frontend
           ELSE /\ rpc' = "returned"
                /\ \E ffma_peak \in Peaks, dfma_peak \in Peaks,
                      fadd \in PerCycle, fmul \in PerCycle, ffma \in PerCycle,
                      dadd \in PerCycle, dmul \in PerCycle, dfma \in PerCycle,
                      rows \in BOOLEAN :
                       frontend' = SOLFPRoofline_report(
                                       frontend, Table, parent_weights',
                                       fadd + fmul + 2 * ffma, dadd + dmul + 2 * dfma,
                                       2 * ffma_peak, 2 * dfma_peak, rows)
                /\ UNCHANGED metrics
                /\ UNCHANGED parse_vars
    /\ UNCHANGED <<host_catalog, catalog, queried, rule, args, result, previous, host_vars>>

\* apply() after the parse() of the GB10x metrics returned
SOLFPRoofline_apply_gb10x ==
    /\ rule = "SOLFPRoofline"
    /\ rpc = "parse2"
    /\ pc = "returned"
    /\ \E ffma_peak \in Peaks, dfma_peak \in Peaks,
          fadd \in PerCycle, fmul \in PerCycle, ffma \in PerCycle,
          fadd2 \in PerCycle, fmul2 \in PerCycle, ffma2 \in PerCycle,
          dadd \in PerCycle, dmul \in PerCycle, dfma \in PerCycle,
          rows \in BOOLEAN :
           frontend' = SOLFPRoofline_report(
                           frontend, metrics, parent_weights,
                           fadd + fmul + 2 * ffma + fadd2 * 2 + fmul2 + 2 * ffma2 * 4,
                           dadd + dmul + 2 * dfma,
                           2 * ffma_peak, 2 * dfma_peak, rows)
    /\ rpc' = "returned"
    /\ UNCHANGED <<host_catalog, catalog, queried, rule, metrics, parent_weights,
                   args, result, previous, host_vars>>
    /\ UNCHANGED parse_vars

----------------------------------------------------------------------------
(* LocalMemoryUsage.py *)

LocalMemoryUsage_requested_metrics == <<
    MetricRequest("l1tex__t_sectors.sum", "l1_sectors", OPTIONAL, PyNone, FALSE),
    MetricRequestDefault("l1tex__t_sectors_pipe_lsu_mem_local_op_ld.sum", "l1_sectors_loads"),
    MetricRequestDefault("l1tex__t_sectors_pipe_lsu_mem_local_op_st.sum", "l1_sectors_stores"),
    MetricRequestDefault("l1tex__t_sector_pipe_lsu_mem_local_op_ld_hit_rate.pct",
                         "l1_sectors_loads_hit_pct"),
    MetricRequestDefault("l1tex__t_sector_pipe_lsu_mem_local_op_st_hit_rate.pct",
                         "l1_sectors_stores_hit_pct"),
    MetricRequestDefault("l1tex__t_sectors_pipe_lsu_mem_local_op_ld_lookup_miss.sum",
                         "l2_sectors_loads"),
    MetricRequestDefault("l1tex__t_sectors_pipe_lsu_mem_local_op_st_lookup_miss.sum",
                         "l2_sectors_stores"),
    MetricRequestDefault("lts__t_sectors.sum", "l2_sectors"),
    MetricRequest("l1tex__t_sectors_pipe_lsu_mem_local_op_ld.sum.per_second",
                  "l1_throughput_loads", OPTIONAL, PyNone, FALSE),
    MetricRequest("l1tex__t_sectors_pipe_lsu_mem_local_op_st.sum.per_second",
                  "l1_throughput_stores", OPTIONAL, PyNone, FALSE),
    MetricRequest("lts__t_sectors_op_read.sum.per_second",
                  "l2_throughput_loads", OPTIONAL, PyNone, FALSE),
    MetricRequest("lts__t_sectors_op_write.sum.per_second",
                  "l2_throughput_stores", OPTIONAL, PyNone, FALSE),
    MetricRequest("inst_executed", "inst_executed", OPTIONAL, PyNone, TRUE),
    MetricRequest("smsp__sass_inst_executed_op_local_ld.sum", "inst_loads",
                  OPTIONAL, PyNone, TRUE),
    MetricRequest("smsp__sass_inst_executed_op_local_st.sum", "inst_stores",
                  OPTIONAL, PyNone, TRUE),
    MetricRequest("sass__inst_executed_register_spilling_mem_local", "inst_spills",
                  OPTIONAL, PyNone, FALSE),
    MetricRequest("sass__inst_executed_register_spilling_mem_local_op_read",
                  "inst_spills_loads", OPTIONAL, PyNone, FALSE),
    MetricRequest("sass__inst_executed_register_spilling_mem_local_op_write",
                  "inst_spills_stores", OPTIONAL, PyNone, FALSE),
    MetricRequestDefault("gpu__time_duration.sum", "kernel_duration") >>

\* apply() divides by zero while it words the message: inst_spills / inst_local
\* (line 424) or the local sectors over lts__t_sectors.sum (line 451)
LocalMemoryUsage_divides_by_zero(table, inst_loads, inst_stores, inst_spills, loads_hit_pct, stores_hit_pct, l2_sectors) ==
    \/ /\ get(table, "inst_loads") # None
       /\ get(table, "inst_stores") # None
       /\ get(table, "inst_spills") # None
       /\ inst_spills # 0
       /\ inst_spills # inst_loads + inst_stores
       /\ ~(get(table, "inst_spills_loads") # None /\ get(table, "inst_spills_stores") # None)
       /\ inst_loads + inst_stores = 0
    \/ /\ ~(loads_hit_pct > 80 /\ stores_hit_pct > 80)
       /\ l2_sectors = 0

\* add_focus_metrics
LocalMemoryUsage_add_focus_metrics(log, id, table, inst_loads, inst_stores, inst_spills) ==
    LET l1 == IF get(table, "inst_spills") # None /\ inst_spills # 0
              THEN fe_focus_metric(log, id, get(table, "inst_spills"), "HIGH") ELSE log
        l2 == IF get(table, "inst_loads") # None /\ inst_loads # 0
              THEN fe_focus_metric(l1, id, get(table, "inst_loads"), "HIGH") ELSE l1
        l3 == IF get(table, "inst_stores") # None /\ inst_stores # 0
              THEN fe_focus_metric(l2, id, get(table, "inst_stores"), "HIGH") ELSE l2
        l4 == fe_focus_metric(l3, id, get(table, "l1_sectors_loads_hit_pct"), "LOW")
    IN  fe_focus_metric(l4, id, get(table, "l1_sectors_stores_hit_pct"), "LOW")

\* Estimates calculate_estimated_speedup may come to (the maximum of two
\* ratios of counters, as a percentage).
ImprovementPercents == {Rat(0, 1), Rat(50, 1)}

\* calculate_estimated_speedup: the type is fixed, the number is drawn
LocalMemoryUsage_calculate_estimated_speedup(improvement_percent) ==
    [type |-> SpeedupType_GLOBAL, value |-> improvement_percent]

\* apply() after parse() returned
LocalMemoryUsage_apply ==
    /\ rule = "LocalMemoryUsage"
    /\ rpc = "parse1"
    /\ pc = "returned"
    /\ \E l1_sectors_loads \in {0, 1}, l1_sectors_stores \in {0, 1},
          inst_loads \in {0, 1}, inst_stores \in {0, 1}, inst_spills \in {0, 1},
          loads_hit_pct \in {50, 90}, stores_hit_pct \in {50, 90},
          l2_sectors \in {0, 1}, rows \in BOOLEAN,
          improvement_percent \in ImprovementPercents :
           IF l1_sectors_loads = 0 /\ l1_sectors_stores = 0
           THEN frontend' = frontend /\ rpc' = "returned"
           ELSE IF LocalMemoryUsage_divides_by_zero(Table, inst_loads, inst_stores,
                       inst_spills, loads_hit_pct, stores_hit_pct, l2_sectors)
           THEN frontend' = frontend /\ rpc' = "ZeroDivisionError"
           ELSE LET l1 == fe_message(frontend, "OPTIMIZATION", "Local Memory Usage")
                    id == msg_id(l1)
                    l2 == LocalMemoryUsage_add_focus_metrics(l1, id, Table, inst_loads,
                                                             inst_stores, inst_spills)
                    l3 == IF get(Table, "inst_executed") # None /\ rows
                          THEN fe_table_and_markers(l2, id) ELSE l2
                    estimate == LocalMemoryUsage_calculate_estimated_speedup(
                                    improvement_percent)
                IN  /\ frontend' = fe_speedup(l3, id, estimate.type, estimate.value)
                    /\ rpc' = "returned"
    /\ UNCHANGED <<host_catalog, catalog, queried, rule, metrics, parent_weights,
                   args, result, previous, host_vars>>
    /\ UNCHANGED parse_vars

----------------------------------------------------------------------------
(* A rule is run on a profiled unit. *)

Rules == {"FPInstructions", "LocalMemoryUsage", "PCSamplingData", "SOLBottleneck",
          "SOLFPRoofline", "TileAnalysis"}

requested_metrics(r) ==
    CASE r = "FPInstructions" -> FPInstructions_requested_metrics
      [] r = "LocalMemoryUsage" -> LocalMemoryUsage_requested_metrics
      [] r = "PCSamplingData" -> PCSamplingData_requested_metrics
      [] r = "SOLBottleneck" -> SOLBottleneck_requested_metrics
      [] r = "SOLFPRoofline" -> SOLFPRoofline_requested_metrics
      [] r = "TileAnalysis" -> TileAnalysis_requested_metrics

\* Every counter the rule may ask the unit for.
CounterNames(r) ==
    NamesOf(requested_metrics(r))
    \cup (IF r = "SOLBottleneck" THEN BreakdownNames ELSE {})
    \cup (IF r = "SOLFPRoofline" THEN NamesOf(SOLFPRoofline_requested_metrics_gb10x) ELSE {})

\* get_parent_rules_identifiers: the rules that read weights of a parent
HasParent(r) == r \in {"FPInstructions", "SOLFPRoofline"}

\* apply() up to its first parse(); PCSamplingData returns on a workload that
\* is no kernel
ApplyStart ==
    /\ rpc = "start"
    /\ \E kernel \in BOOLEAN :
           IF rule = "PCSamplingData" /\ ~kernel
           THEN /\ rpc' = "returned"
                /\ UNCHANGED parse_vars
           ELSE /\ rpc' = "parse1"
                /\ StartParse(requested_metrics(rule))
    /\ UNCHANGED <<host_catalog, catalog, queried, frontend, rule, metrics,
                   parent_weights, args, result, previous, host_vars>>

\* What HighPipeUtilization may have sent before the rule runs: nothing, or
\* one dict.
ParentSent == {<< >>} \cup {<<p>> : p \in ParentWeights}

\* The pass of the unit so far: HighPipeUtilization has run or not, and has
\* sent the payloads.
ParentRan(executed, payloads) ==
    /\ graph = DeclaredGraph({})
    /\ config = "ok"
    /\ channel = [u \in Units |->
                     IF u = ThisUnit /\ payloads # << >>
                     THEN [k \in {"HighPipeUtilization"} |-> payloads[Len(payloads)]]
                     ELSE << >>]
    /\ finished = [u \in Units |->
                      IF u = ThisUnit /\ (executed \/ payloads # << >>)
                      THEN {"HighPipeUtilization"} ELSE {}]
    /\ active = [u \in Units |-> IF u = ThisUnit THEN rule ELSE "none"]
    /\ received = NoRead
    /\ sent = [u \in Units |->
                  IF u = ThisUnit
                  THEN [i \in DOMAIN payloads |->
                           [rule |-> "HighPipeUtilization", payload |-> payloads[i]]]
                  ELSE << >>]

RulesInit ==
    /\ rule \in Rules
    /\ rpc = "start"
    /\ host_catalog \in CatalogsOver(CounterNames(rule))
    /\ catalog = host_catalog
    /\ queried = << >>
    /\ frontend = << >>
    /\ ParseIdle
    /\ metrics = NoTable
    /\ parent_weights = << >>
    /\ SpeedupIdle
    /\ IF HasParent(rule)
       THEN \E executed \in BOOLEAN, payloads \in ParentSent : ParentRan(executed, payloads)
       ELSE ParentRan(FALSE, << >>)

RulesNext ==
    \/ ApplyStart
    \/ parse
    \/ FPInstructions_apply
    \/ LocalMemoryUsage_apply
    \/ PCSamplingData_apply
    \/ SOLBottleneck_apply_breakdown
    \/ SOLBottleneck_apply
    \/ SOLFPRoofline_apply
    \/ SOLFPRoofline_apply_gb10x
    \/ TileAnalysis_apply

RulesSpec == RulesInit /\ [][RulesNext]_vars

----------------------------------------------------------------------------
(* The host runs the rules of a pass on each profiled unit: it checks the  *)
(* declared graph once, then starts a rule of a unit when its parents have  *)
(* finished there; the running rule receives and sends dicts.               *)

MaxSends == 2

\* What the host's scheduling never touches: the state of one apply().
unit_vars == <<host_catalog, catalog, queried, requests, idx, data, aliasToName,
               found_missing_required_metrics, found_missing_optional_metrics,
               missing_required_metrics, frontend, reason, pc,
               rule, rpc, metrics, parent_weights, args, result, previous>>

\* The graphs tried: the parents of FPInstructions and SOLFPRoofline as they
\* declare them, HighPipeUtilization with no parent, with itself or with one
\* of its children as parent.
Graphs == {DeclaredGraph(parents) :
              parents \in {{}, {"HighPipeUtilization"}, {"FPInstructions"}, {"SOLFPRoofline"}}}

\* The dicts a rule may send.
Payloads == {[w |-> 42], [v |-> 7]}

\* only a rule that names itself as parent counts as a cycle
Cyclic_self_loops_only(g) == \E r \in DOMAIN g : r \in g[r]

\* The declared graph has a cycle: some rule is its own ancestor.
Cyclic(g) ==
    LET ancestors[i \in 0..Cardinality(DOMAIN g)] ==
            IF i = 0 THEN [r \in DOMAIN g |-> g[r]]
            ELSE [r \in DOMAIN g |->
                     ancestors[i - 1][r] \cup UNION {g[q] : q \in ancestors[i - 1][r]}]
    IN  \E r \in DOMAIN g : r \in ancestors[Cardinality(DOMAIN g)][r]

\* The graph is checked once, before any pass.
HostCheckGraph ==
    /\ config = "unchecked"
    /\ config' = IF Cyclic(graph) THEN "cycle" ELSE "ok"
    /\ UNCHANGED <<graph, channel, finished, active, received, sent>>
    /\ UNCHANGED unit_vars

\* rules start in any order
HostStartRule_any_order(u, r) ==
    /\ config = "ok"
    /\ active[u] = "none"
    /\ r \notin finished[u]
    /\ active' = [active EXCEPT ![u] = r]
    /\ received' = NoRead
    /\ UNCHANGED <<graph, config, channel, finished, sent>>
    /\ UNCHANGED unit_vars

\* apply() of rule r starts on unit u: its parents have finished there
HostStartRule(u, r) ==
    /\ config = "ok"
    /\ active[u] = "none"
    /\ r \notin finished[u]
    /\ graph[r] \subseteq finished[u]
    /\ active' = [active EXCEPT ![u] = r]
    /\ received' = NoRead
    /\ UNCHANGED <<graph, config, channel, finished, sent>>
    /\ UNCHANGED unit_vars

\* the dict is handed over: a second read finds nothing
HostReceive_consumes(u, parent) ==
    /\ active[u] # "none"
    /\ received' = [unit |-> u, parent |-> parent,
                    value |-> receive_dict_from_parent(channel, u, parent)]
    /\ channel' = [channel EXCEPT ![u] =
                       [k \in DOMAIN channel[u] \ {parent} |-> channel[u][k]]]
    /\ UNCHANGED <<graph, config, finished, active, sent>>
    /\ UNCHANGED unit_vars

\* The rule running on unit u calls fe.receive_dict_from_parent(parent).
HostReceive(u, parent) ==
    /\ active[u] # "none"
    /\ received' = [unit |-> u, parent |-> parent,
                    value |-> receive_dict_from_parent(channel, u, parent)]
    /\ UNCHANGED <<graph, config, channel, finished, active, sent>>
    /\ UNCHANGED unit_vars

\* The rule running on unit u calls fe.send_dict_to_children(payload).
HostSend(u, payload) ==
    /\ active[u] # "none"
    /\ Len(sent[u]) < MaxSends
    /\ channel' = send_dict_to_children(channel, u, active[u], payload)
    /\ sent' = [sent EXCEPT ![u] = Append(@, [rule |-> active[u], payload |-> payload])]
    /\ received' = NoRead
    /\ UNCHANGED <<graph, config, finished, active>>
    /\ UNCHANGED unit_vars

\* apply() of the rule running on unit u returns.
HostFinish(u) ==
    /\ active[u] # "none"
    /\ finished' = [finished EXCEPT ![u] = @ \cup {active[u]}]
    /\ active' = [active EXCEPT ![u] = "none"]
    /\ received' = NoRead
    /\ UNCHANGED <<graph, config, channel, sent>>
    /\ UNCHANGED unit_vars

\* the dicts of the last pass stay in the channel
HostNewPass_keeps(u) ==
    /\ active[u] = "none"
    /\ finished[u] = HostRules
    /\ finished' = [finished EXCEPT ![u] = {}]
    /\ sent' = [sent EXCEPT ![u] = << >>]
    /\ received' = NoRead
    /\ UNCHANGED <<graph, config, channel, active>>
    /\ UNCHANGED unit_vars

\* Every rule has run on unit u: its next pass begins, the namespace empty.
HostNewPass(u) ==
    /\ active[u] = "none"
    /\ finished[u] = HostRules
    /\ channel' = [channel EXCEPT ![u] = << >>]
    /\ finished' = [finished EXCEPT ![u] = {}]
    /\ sent' = [sent EXCEPT ![u] = << >>]
    /\ received' = NoRead
    /\ UNCHANGED <<graph, config, active>>
    /\ UNCHANGED unit_vars

HostInit ==
    /\ host_catalog = [n \in Names |-> Absent]
    /\ catalog = host_catalog
    /\ queried = << >>
    /\ frontend = << >>
    /\ ParseInit(<< >>)
    /\ RuleIdle
    /\ SpeedupIdle
    /\ graph \in Graphs
    /\ config = "unchecked"
    /\ channel = [u \in Units |-> << >>]
    /\ finished = [u \in Units |-> {}]
    /\ active = [u \in Units |-> "none"]
    /\ received = NoRead
    /\ sent = [u \in Units |-> << >>]

HostNext ==
    \/ HostCheckGraph
    \/ \E u \in Units, r \in HostRules : HostStartRule(u, r)
    \/ \E u \in Units, parent \in HostRules : HostReceive(u, parent)
    \/ \E u \in Units, payload \in Payloads : HostSend(u, payload)
    \/ \E u \in Units : HostFinish(u)
    \/ \E u \in Units : HostNewPass(u)

HostSpec == HostInit /\ [][HostNext]_vars

----------------------------------------------------------------------------
(* parse() called twice on the same requests in two orders, each time on    *)
(* the catalog as the host filled it.                                       *)

\* The metric names of the reordered batches.
PermNames == {"a", "b", "c"}

\* The aliases of the reordered batches: none, one that is no name, one that
\* is the name of another metric.
PermAliases == {None, "k", "b"}

\* The requests of the reordered batches: REQUIRED, or OPTIONAL with no
\* default, a valid default or a default that _create_fallback_metric rejects.
PermRequestSpace ==
    {MetricRequestDefault(n, al) : n \in PermNames, al \in PermAliases}
    \cup
    {MetricRequest(n, al, OPTIONAL, d, TRUE) :
        n \in PermNames, al \in PermAliases, d \in {PyNone, PyInt(1), PyInt(-1)}}

PermBatches == UNION {[1..n -> PermRequestSpace] : n \in 0..MaxBatch}

\* The keys of the table parse() returns, each with the handle a lookup gives
\* and the value the catalog holds for it.
Mapping ==
    [key \in DOMAIN data \cup DOMAIN aliasToName |->
        LET handle == getitem(data, aliasToName, key).value
        IN  [handle |-> handle,
             value |-> IF handle \in DOMAIN catalog THEN catalog[handle] ELSE Absent]]

\* How parse() ended: it returned the table, it ended in raise_exception with
\* the missing REQUIRED names, or a KeyError or ValueError left it.
Outcome ==
    [end |-> IF pc \in {"returned", "aborted"} THEN pc ELSE "exception",
     missing |-> IF pc = "aborted" THEN missing_required_metrics ELSE {},
     mapping |-> IF pc = "returned" THEN Mapping ELSE << >>]

\* The batch in the order p.
Reordered(batch, p) == [i \in DOMAIN batch |-> batch[p[i]]]

\* parse() is called again, on the same requests in another order and on the
\* catalog of the host as it was before the first call
ParseAgain ==
    /\ pc # "loop"
    /\ previous = NoCall
    /\ previous' = Outcome
    /\ \E p \in Orders(DOMAIN requests) :
          /\ \E i \in DOMAIN requests : p[i] # i
          /\ StartParse(Reordered(requests, p))
    /\ catalog' = host_catalog
    /\ queried' = << >>
    /\ frontend' = << >>
    /\ UNCHANGED <<host_catalog, rule, rpc, metrics, parent_weights, args, result,
                   host_vars>>

PermInit ==
    /\ host_catalog \in [PermNames -> {Absent, HostValue}]
    /\ catalog = host_catalog
    /\ queried = << >>
    /\ frontend = << >>
    /\ RuleIdle
    /\ SpeedupIdle
    /\ HostIdle
    /\ \E batch \in PermBatches : ParseInit(batch)

PermNext == parse \/ ParseAgain

PermSpec == PermInit /\ [][PermNext]_vars

----------------------------------------------------------------------------
(* parse() called again: on the same action, as rules that run one after    *)
(* the other on a profiled unit do, or in another execution on the same    *)
(* catalog contents.                                                        *)

\* The requests of these calls: REQUIRED, or OPTIONAL without or with a
\* default.
CallRequestSpace ==
    {MetricRequestDefault(n, None) : n \in Names}
    \cup
    {MetricRequest(n, None, OPTIONAL, d, TRUE) : n \in Names, d \in {PyNone, PyInt(1)}}

CallBatches == UNION {[1..n -> CallRequestSpace] : n \in 0..MaxBatch}

\* A later parse() on the same action: a new RequestedMetricsParser, the
\* catalog and the frontend as the earlier call left them
ParseLater ==
    /\ pc # "loop"
    /\ previous = NoCall
    /\ previous' = [type |-> "earlier", end |-> pc]
    /\ \E batch \in CallBatches : StartParse(batch)
    /\ UNCHANGED <<host_catalog, catalog, queried, frontend>>
    /\ UNCHANGED <<rule, rpc, metrics, parent_weights, args, result, host_vars>>

\* Another execution: the same requests in the same order on the same
\* catalog contents
ParseRepeat ==
    /\ pc # "loop"
    /\ previous = NoCall
    /\ previous' = [type |-> "execution", end |-> pc, messages |-> frontend,
                    reason |-> reason]
    /\ StartParse(requests)
    /\ catalog' = host_catalog
    /\ queried' = << >>
    /\ frontend' = << >>
    /\ UNCHANGED <<host_catalog, rule, rpc, metrics, parent_weights, args, result,
                   host_vars>>

CallsInit ==
    /\ host_catalog \in Catalogs
    /\ catalog = host_catalog
    /\ queried = << >>
    /\ frontend = << >>
    /\ RuleIdle
    /\ SpeedupIdle
    /\ HostIdle
    /\ \E batch \in CallBatches : ParseInit(batch)

CallsNext == parse \/ ParseLater \/ ParseRepeat

CallsSpec == CallsInit /\ [][CallsNext]_vars

----------------------------------------------------------------------------
(* A RequestedMetricDict under arbitrary __setitem__ calls. *)

\* The keys tried: the names, an alias, and a string that is neither.
DictKeys == Names \cup AliasStrings \cup {"z"}

\* The items tried: any name, with or without an alias, with a handle or None.
DictItems ==
    {RequestedMetric(n, m, REQUIRED, al) :
        n \in Names, m \in {"handle", None}, al \in AliasStrings \cup {None}}

\* table[key] = item
DictSetitem(key, item) ==
    /\ pc \in {"idle", "stored", "KeyError"}
    /\ args' = [type |-> "setitem", key |-> key, item |-> item]
    /\ IF setitem_raises(aliasToName, key, item)
       THEN /\ pc' = "KeyError"
            /\ data' = setitem_rejected_data(data, key, item)
            /\ aliasToName' = setitem_rejected_alias(aliasToName, key, item)
       ELSE /\ pc' = "stored"
            /\ data' = setitem_data(data, item)
            /\ aliasToName' = setitem_alias(aliasToName, item)
    /\ UNCHANGED <<host_catalog, catalog, queried, requests, idx,
                   found_missing_required_metrics, found_missing_optional_metrics,
                   missing_required_metrics, frontend, reason>>
    /\ UNCHANGED <<rule, rpc, metrics, parent_weights, result, previous, host_vars>>

DictInit ==
    /\ host_catalog = [n \in Names |-> HostValue]
    /\ catalog = host_catalog
    /\ queried = << >>
    /\ frontend = << >>
    /\ ParseIdle
    /\ RuleIdle
    /\ SpeedupIdle
    /\ HostIdle

DictNext == \E key \in DictKeys, item \in DictItems : DictSetitem(key, item)

DictSpec == DictInit /\ [][DictNext]_vars

----------------------------------------------------------------------------
(* What the batch asks for, stated from the host's catalog and the batch.  *)

Indices == 1..Len(requests)

\* The request makes parse() add a catalog entry when its name is not found.
Synthesizes(m) == m.importance = OPTIONAL /\ m.default_value # PyNone

\* Request i does not find its name: the host supplied no such counter and no
\* earlier request of the batch had a fallback entry created for it.
MissingAtLookup(i) ==
    /\ Missing(host_catalog, requests[i].name)
    /\ \A j \in 1..(i - 1) :
           ~(requests[j].name = requests[i].name /\ Synthesizes(requests[j]))

MissingRequired(i) == requests[i].importance = REQUIRED /\ MissingAtLookup(i)

MissingOptional(i) == requests[i].importance = OPTIONAL /\ MissingAtLookup(i)

MissingRequiredNames == {requests[i].name : i \in {j \in Indices : MissingRequired(j)}}

\* The default value is one a fallback metric can be made from.
TypeValid(d) ==
    \/ d.type = "int" /\ d.v >= 0
    \/ d.type = "float"
    \/ d.type = "str"

\* The catalog entry the setter of the default's type leaves behind.
TypedValue(d) ==
    CASE d.type = "int" -> [kind |-> "uint64", v |-> d.v]
      [] d.type = "float" -> [kind |-> "double", v |-> d.v]
      [] d.type = "str" -> [kind |-> "string", v |-> d.v]

\* The parser's own messages in the frontend log, by severity.
ParserMessages(type) ==
    SelectSeq(frontend, LAMBDA c : c.op = "message" /\ c.type = type /\ c.title = None)

Lookup(key) == getitem(data, aliasToName, key)

----------------------------------------------------------------------------
(* C1 *)

----------------------------------------------------------------------------
(* C3 *)

\* The handle parse() resolved for request i.
Resolved(i) ==
    IF MissingAtLookup(i) /\ requests[i].default_value = PyNone
    THEN None
    ELSE requests[i].name

\* C3 as stated: in a returned table the name and the alias of every request
\* look up the same metric object, the one resolved for that request.
C3_NameAndAliasSameMetric ==
    (pc = "returned") =>
        \A i \in Indices :
            /\ Lookup(requests[i].name) = Returned(Resolved(i))
            /\ (requests[i].alias # None) =>
                   Lookup(requests[i].alias) = Lookup(requests[i].name)

----------------------------------------------------------------------------
(* C4 *)

\* The request the loop is at reaches __setitem__.
AtInsertion ==
    /\ pc = "loop"
    /\ idx <= Len(requests)
    /\ \/ ~Missing(catalog, requests[idx].name)
       \/ requests[idx].importance = OPTIONAL /\ fallback_metric(requests[idx]).ok

\* C4: within one parse() an insertion whose alias is registered for another
\* name raises KeyError and leaves the table alone, no step ever rebinds a
\* registered alias, and inserting a (name, alias) pair again succeeds.
C4_AliasCollisionRejected ==
    [][AtInsertion =>
          LET m == requests[idx]
              bound == m.alias # None /\ m.alias \in DOMAIN aliasToName
          IN  /\ (bound /\ aliasToName[m.alias] # m.name) =>
                     (pc' = "KeyError" /\ aliasToName' = aliasToName /\ data' = data)
              /\ (bound /\ aliasToName[m.alias] = m.name) =>
                     (pc' = "loop" /\ idx' = idx + 1 /\ aliasToName' = aliasToName
                      /\ m.name \in DOMAIN data')
              /\ \A al \in DOMAIN aliasToName :
                     al \in DOMAIN aliasToName' /\ aliasToName'[al] = aliasToName[al]
      ]_vars

C4_Witness ==
    /\ pc = "KeyError"
    /\ requests[idx].alias \in DOMAIN aliasToName
    /\ aliasToName[requests[idx].alias] # requests[idx].name

----------------------------------------------------------------------------
(* C5 *)

\* C5 as stated: a missing OPTIONAL request with a uint, float or str default
\* does not make parse() fail, and in the returned table its name and its
\* alias look up a synthesized handle holding the default, typed by its
\* setter.
C5_FallbackValue ==
    /\ (pc = "ValueError") => ~TypeValid(requests[idx].default_value)
    /\ (pc = "returned") =>
           \A i \in Indices :
               (MissingOptional(i) /\ TypeValid(requests[i].default_value)) =>
                   \A key \in {requests[i].name, requests[i].alias} \ {None} :
                       /\ Lookup(key).ok
                       /\ Lookup(key).value # None
                       /\ catalog[Lookup(key).value] = TypedValue(requests[i].default_value)

----------------------------------------------------------------------------
(* C6 *)

\* C6 as stated: a missing OPTIONAL request with default None does not make
\* parse() fail, and in the returned table its name and its alias are
\* contained and look up None without KeyError.
C6_NoneMarker ==
    (pc = "returned") =>
        \A i \in Indices :
            (MissingOptional(i) /\ requests[i].default_value = PyNone) =>
                \A key \in {requests[i].name, requests[i].alias} \ {None} :
                    /\ contains(data, aliasToName, key)
                    /\ Lookup(key) = Returned(None)

----------------------------------------------------------------------------
(* C7 *)

NumWarnings == Len(ParserMessages("WARNING"))

WarningDue == \E i \in Indices : MissingOptional(i) /\ requests[i].warn_when_missing

\* C7 as stated: once parse() has ended, one WARNING was emitted if some
\* missing OPTIONAL request has warn_when_missing, and none otherwise.
C7_Original ==
    (pc # "loop") => (NumWarnings = IF WarningDue THEN 1 ELSE 0)

\* C7 (amended): a parse() call never emits more than one WARNING, and a call
\* whose loop runs to its end (it returns or aborts through raise_exception)
\* has emitted exactly one if some missing OPTIONAL request has
\* warn_when_missing true, and none if none has.
C7_OneBatchedWarning ==
    /\ NumWarnings <= 1
    /\ (pc \in {"returned", "aborted"}) =>
           (NumWarnings = IF WarningDue THEN 1 ELSE 0)

C7_Witness ==
    /\ pc \in {"returned", "aborted"}
    /\ NumWarnings = 1
    /\ Cardinality({i \in Indices : MissingOptional(i) /\ requests[i].warn_when_missing}) = 2

----------------------------------------------------------------------------
(* C8 *)

\* Names of the REQUIRED requests among the first n that found nothing, in
\* request order.
ExpectedErrors(n) ==
    LET sel == SelectSeq([i \in 1..n |-> i], LAMBDA i : MissingRequired(i))
    IN  [k \in 1..Len(sel) |-> requests[sel[k]].name]

ErrorNames ==
    LET errs == ParserMessages("ERROR")
    IN  [k \in 1..Len(errs) |-> errs[k].arg]

\* C8: the ERROR messages are, in request order, the missing REQUIRED metrics
\* of the requests processed so far, a missing REQUIRED metric leaves the loop
\* running, and raise_exception comes only after the last request.
C8_CollectThenAbort ==
    /\ ErrorNames = ExpectedErrors(idx - 1)
    /\ (pc = "aborted") => (idx = Len(requests) + 1)

C8_Witness ==
    /\ pc = "aborted"
    /\ \E i \in Indices : i < Len(requests) /\ MissingRequired(i)
    /\ Len(ErrorNames) = 2

----------------------------------------------------------------------------
(* C9 *)

\* The first request of the batch that asks for the name.
FirstIndex(name) == CHOOSE i \in Indices :
    requests[i].name = name /\ \A j \in 1..(i - 1) : requests[j].name # name

\* C9 as stated: a name requested twice is looked up in the catalog once and
\* the returned table keeps the RequestedMetric made for the first request.
C9_DuplicateNameKeepsFirst ==
    (pc = "returned") =>
        \A i \in Indices :
            LET f == requests[FirstIndex(requests[i].name)]
            IN  /\ data[f.name].alias = f.alias
                /\ data[f.name].importance = f.importance
                /\ Cardinality({k \in DOMAIN queried : queried[k] = f.name}) = 1

----------------------------------------------------------------------------
(* C10 *)

\* C10: with an instruction executed, get_estimated_speedup returns GLOBAL and
\* local-fraction * weight when the parent sent the weight of the precision
\* (a weight of 0 included), and LOCAL and local-fraction * 100 when it did
\* not, where local-fraction = 0.5 * non_fused / (fused + non_fused).
C10_BinarySpeedup ==
    (result # NoCall /\ "fp_type" \in DOMAIN args) =>
        LET key == IF args.fp_type = 32 THEN "fp32_pipeline_utilization_pct"
                   ELSE "fp64_pipeline_utilization_pct"
            given == key \in DOMAIN args.parent_weights
            weight == IF given THEN args.parent_weights[key].v ELSE 100
        IN  /\ result.type = IF given THEN "GLOBAL" ELSE "LOCAL"
            /\ result.value.den > 0
            \* value = (non_fused / (2 * (fused + non_fused))) * weight
            /\ result.value.num * 2 * (args.fused + args.non_fused)
                   = args.non_fused * weight * result.value.den

C10_Witness ==
    /\ result # NoCall
    /\ "fp_type" \in DOMAIN args
    /\ args.fp_type = 32
    /\ "fp32_pipeline_utilization_pct" \in DOMAIN args.parent_weights
    /\ args.parent_weights["fp32_pipeline_utilization_pct"].v = 0
    /\ args.non_fused > 0
    /\ result.type = "GLOBAL"

----------------------------------------------------------------------------
(* C2 *)

\* A call the rule itself made (the parser's messages carry no title).
RuleLevel(c) == ~(c.op = "message" /\ c.title = None)

\* Some parse() of this apply() found a REQUIRED metric missing.
FoundRequiredMissing ==
    \/ Len(ParserMessages("ERROR")) > 0
    \/ \E i \in Indices : i < idx /\ MissingRequired(i)

\* C2: in an apply() in which a parse() found a REQUIRED metric missing the
\* frontend has received nothing from the rule itself: no message of its own,
\* no speedup, no focus metric, no table and no weights for its children,
\* neither before the abort nor after it.
C2_NoFindingOnAbort ==
    FoundRequiredMissing => \A k \in DOMAIN frontend : ~RuleLevel(frontend[k])

\* get_breakdown_metrics of SOLBottleneck aborts: its first parse() returned a
\* table with the memory metrics, a breakdown metric is missing.
C2_Witness ==
    /\ rule = "SOLBottleneck"
    /\ rpc = "parse2"
    /\ pc = "aborted"
    /\ get(metrics, "mem_sol_pct") # None
    /\ \A k \in DOMAIN frontend : ~RuleLevel(frontend[k])

----------------------------------------------------------------------------
(* C11 *)

\* A call of SOLFPRoofline's get_estimated_speedup has returned.
RooflineReturned ==
    /\ "peak_fp32" \in DOMAIN args
    /\ result # NoCall
    /\ result.type # "ZeroDivisionError"

\* The estimate is local-fraction * weight, where local-fraction =
\* (achieved_fp64 / (achieved_fp32 + achieved_fp64)) * (1 - peak_fp64 / peak_fp32).
RooflineValueIs(weight) ==
    /\ result.value.den > 0
    /\ result.value.num * (args.achieved_fp32 + args.achieved_fp64) * args.peak_fp32
           = args.achieved_fp64 * (args.peak_fp32 - args.peak_fp64) * weight
             * result.value.den

\* C11 as stated: for every call that returns, the estimate is GLOBAL and
\* local-fraction * weight when parent_weights has the key
\* "fp64_pipeline_utilization_pct", and LOCAL and local-fraction * 100 when it
\* has not.
C11_Original ==
    RooflineReturned =>
        LET given == "fp64_pipeline_utilization_pct" \in DOMAIN args.parent_weights
        IN  /\ result.type = IF given THEN "GLOBAL" ELSE "LOCAL"
            /\ RooflineValueIs(IF given
                               THEN args.parent_weights["fp64_pipeline_utilization_pct"].v
                               ELSE 100)

\* C11 (amended): when the FP64 peak does not exceed the FP32 peak the estimate
\* is GLOBAL and local-fraction * weight if parent_weights has the key (a
\* weight of 0 included) and LOCAL and local-fraction * 100 if it has not; when
\* the FP64 peak exceeds the FP32 peak the estimate is LOCAL and 0 whether or
\* not the key is there.
C11_RooflineSpeedup ==
    RooflineReturned =>
        LET given == "fp64_pipeline_utilization_pct" \in DOMAIN args.parent_weights
        IN  IF args.peak_fp64 > args.peak_fp32
            THEN result.type = "LOCAL" /\ result.value.num = 0
            ELSE /\ result.type = IF given THEN "GLOBAL" ELSE "LOCAL"
                 /\ RooflineValueIs(IF given
                                    THEN args.parent_weights["fp64_pipeline_utilization_pct"].v
                                    ELSE 100)

C11_Witness ==
    /\ RooflineReturned
    /\ args.peak_fp64 < args.peak_fp32
    /\ args.achieved_fp64 > 0
    /\ "fp64_pipeline_utilization_pct" \in DOMAIN args.parent_weights
    /\ args.parent_weights["fp64_pipeline_utilization_pct"].v = 0
    /\ result.type = "GLOBAL"

----------------------------------------------------------------------------
(* C12 *)

\* The fe.speedup calls the frontend received.
Speedups == {k \in DOMAIN frontend : frontend[k].op = "speedup"}

\* The title of the message the speedup is attached to.
TitleOf(k) ==
    LET j == CHOOSE j \in DOMAIN frontend :
                 frontend[j].op = "message" /\ frontend[j].id = frontend[k].id
    IN  frontend[j].title

\* The weight of the parent that the estimate of the message is multiplied by.
WeightKeyOf(k) ==
    IF TitleOf(k) = "FP32 Non-Fused Instructions"
    THEN "fp32_pipeline_utilization_pct"
    ELSE "fp64_pipeline_utilization_pct"

\* C12 as stated: a speedup is GLOBAL only in a rule that has a parent and
\* received the weight it needs from it, and is LOCAL when the weight was not
\* received, as in every run of LocalMemoryUsage.
C12_Original ==
    \A k \in Speedups :
        /\ (frontend[k].type = "GLOBAL") =>
               (HasParent(rule) /\ WeightKeyOf(k) \in DOMAIN parent_weights)
        /\ (~HasParent(rule) \/ WeightKeyOf(k) \notin DOMAIN parent_weights) =>
               frontend[k].type = "LOCAL"

\* C12 (amended): in the rules that name a parent (FPInstructions and
\* SOLFPRoofline) a speedup is GLOBAL only if the weight was received, and
\* then a weight of 0 makes the estimate 0, and it is LOCAL whenever the
\* weight was not received; LocalMemoryUsage, which names no parent and
\* receives nothing, always reports its estimate as GLOBAL; no other rule
\* attaches a speedup.
C12_GlobalNeedsWeight ==
    \A k \in Speedups :
        IF HasParent(rule)
        THEN /\ (frontend[k].type = "GLOBAL") =>
                    /\ WeightKeyOf(k) \in DOMAIN parent_weights
                    /\ (parent_weights[WeightKeyOf(k)].v = 0) => frontend[k].arg.num = 0
             /\ (WeightKeyOf(k) \notin DOMAIN parent_weights) =>
                    frontend[k].type = "LOCAL"
             /\ (rule = "FPInstructions" /\ WeightKeyOf(k) \in DOMAIN parent_weights) =>
                    frontend[k].type = "GLOBAL"
        ELSE rule = "LocalMemoryUsage" /\ frontend[k].type = "GLOBAL"

\* FPInstructions attached a GLOBAL and a LOCAL estimate in one run.
C12_Witness ==
    /\ rule = "FPInstructions"
    /\ rpc = "returned"
    /\ \E k \in Speedups : frontend[k].type = "GLOBAL"
    /\ \E k \in Speedups : frontend[k].type = "LOCAL"

----------------------------------------------------------------------------
(* C13 *)

\* HighPipeUtilization has not run in this pass of the unit, or has run and
\* sent nothing.
ParentSilent == "HighPipeUtilization" \notin DOMAIN channel[ThisUnit]

\* apply() has called fe.receive_dict_from_parent.
EvidenceRead ==
    \/ rule = "SOLFPRoofline" /\ rpc \in {"parse2", "returned"}
    \/ /\ rule = "FPInstructions"
       /\ rpc = "returned"
       /\ \A n \in DOMAIN data : data[n].metric # None

----------------------------------------------------------------------------
(* C14 *)

\* The dicts rule r sent in this pass of unit u, in order.
SentBy(u, r) == SelectSeq(sent[u], LAMBDA e : e.rule = r)

\* The dict rule r sent last in this pass of unit u, empty if it sent none.
LastSent(u, r) ==
    IF SentBy(u, r) = << >> THEN << >> ELSE SentBy(u, r)[Len(SentBy(u, r))].payload

\* C14: a read that follows two sends of the parent in the pass of the unit
\* returns the second dict, with the keys and values of the second only.
C14_SecondPayloadOnly ==
    \A u \in Units, r \in HostRules :
        (received.unit = u /\ received.parent = r /\ Len(SentBy(u, r)) >= 2) =>
            /\ received.value = SentBy(u, r)[Len(SentBy(u, r))].payload
            /\ DOMAIN received.value = DOMAIN SentBy(u, r)[Len(SentBy(u, r))].payload

\* FPInstructions reads what HighPipeUtilization sent second, after a first
\* dict with another key.
C14_Witness ==
    /\ active["U"] = "FPInstructions"
    /\ received.unit = "U"
    /\ received.parent = "HighPipeUtilization"
    /\ sent["U"] = << [rule |-> "HighPipeUtilization", payload |-> [w |-> 42]],
                      [rule |-> "HighPipeUtilization", payload |-> [v |-> 7]] >>
    /\ received.value = [v |-> 7]

----------------------------------------------------------------------------
(* C15 *)

\* C15: every read that follows a send returns the dict as it was sent,
\* whichever rule reads and however often, and a read leaves the channel as
\* it is.
C15_ImmutableSnapshot ==
    /\ [](\A u \in Units, r \in HostRules :
             (received.unit = u /\ received.parent = r /\ SentBy(u, r) # << >>) =>
                 received.value = LastSent(u, r))
    /\ [][(received' # NoRead /\ sent' = sent) => channel' = channel]_vars

\* The second child reads the dict {"w": 0.42}, here in hundredths, after the
\* first child has run.
C15_Witness ==
    /\ active["U"] = "SOLFPRoofline"
    /\ finished["U"] = {"HighPipeUtilization", "FPInstructions"}
    /\ sent["U"] = << [rule |-> "HighPipeUtilization", payload |-> [w |-> 42]] >>
    /\ received = [unit |-> "U", parent |-> "HighPipeUtilization", value |-> [w |-> 42]]

----------------------------------------------------------------------------
(* C16 *)

\* The namespace the sends of one pass of one unit make up.
Namespace(log) ==
    [r \in {log[i].rule : i \in DOMAIN log} |->
        LET by == SelectSeq(log, LAMBDA e : e.rule = r) IN by[Len(by)].payload]

\* C16: the namespace of a unit holds what was sent in this pass of this unit
\* and nothing else, whatever was sent for another unit; a read returns what
\* was sent for its own unit; a pass starts with an empty namespace.
C16_UnitIsolation ==
    \A u \in Units :
        /\ channel[u] = Namespace(sent[u])
        /\ (received.unit = u) => received.value = LastSent(u, received.parent)
        /\ (finished[u] = {} /\ active[u] = "none") => channel[u] = << >>

\* A rule on unit V reads nothing of what HighPipeUtilization sent on unit U.
C16_Witness ==
    /\ "HighPipeUtilization" \in DOMAIN channel["U"]
    /\ active["U"] # "none"
    /\ sent["V"] = << >>
    /\ received = [unit |-> "V", parent |-> "HighPipeUtilization", value |-> << >>]

----------------------------------------------------------------------------
(* C17 *)

\* C17: FPInstructions and SOLFPRoofline run on a unit only after
\* HighPipeUtilization, the parent they name, has finished in that pass, so
\* what they read of it is all it sent; and no rule runs before the parents
\* the graph gives it.
C17_ParentsFirst ==
    \A u \in Units :
        /\ \A r \in (finished[u] \cup {active[u]}) \cap {"FPInstructions", "SOLFPRoofline"} :
               /\ "HighPipeUtilization" \in finished[u]
               /\ active[u] # "HighPipeUtilization"
        /\ \A r \in (finished[u] \cup {active[u]}) \cap HostRules :
               graph[r] \subseteq finished[u]

\* FPInstructions reads what its parent sent before it finished.
C17_Witness ==
    /\ active["U"] = "FPInstructions"
    /\ finished["U"] = {"HighPipeUtilization"}
    /\ received.unit = "U"
    /\ received.parent = "HighPipeUtilization"
    /\ received.value # << >>

----------------------------------------------------------------------------
(* C18 *)

\* Some rule comes back to itself along declared parents.
HasCycle(g) ==
    \E path \in UNION {[1..n -> DOMAIN g] : n \in 1..Cardinality(DOMAIN g)} :
        /\ \A i \in 1..(Len(path) - 1) : path[i + 1] \in g[path[i]]
        /\ path[1] \in g[path[Len(path)]]

NothingRan ==
    \A u \in Units :
        /\ active[u] = "none"
        /\ finished[u] = {}
        /\ sent[u] = << >>
        /\ channel[u] = << >>

\* C18: no rule runs before the graph is checked, and with a cycle in the
\* declared graph the check ends in the configuration error and no rule
\* ever runs on any unit.
C18_CycleRejected ==
    /\ (config = "unchecked") => NothingRan
    /\ HasCycle(graph) => (config # "ok" /\ NothingRan)
    /\ (config = "cycle") => HasCycle(graph)

\* A cycle of two rules was found.
C18_Witness ==
    /\ config = "cycle"
    /\ graph["HighPipeUtilization"] = {"FPInstructions"}
    /\ NothingRan

----------------------------------------------------------------------------
(* C19 *)

\* apply() ended in the raise_exception of parse().
Aborted == pc = "aborted"

\* apply() returned and the rule itself sent nothing to the frontend.
Skipped == rpc = "returned" /\ \A k \in DOMAIN frontend : ~RuleLevel(frontend[k])

\* C19: an apply() that aborted has emitted an ERROR message and has not
\* returned, an apply() that returned without a finding has emitted no ERROR
\* message and raised nothing, and after either no metric is looked up and
\* nothing reaches the frontend any more.
C19_AbortAndSkipFinal ==
    /\ [](Aborted => /\ Len(ParserMessages("ERROR")) >= 1
                      /\ reason # << >>
                      /\ rpc # "returned")
    /\ [](Skipped => /\ Len(ParserMessages("ERROR")) = 0
                      /\ pc \in {"idle", "returned"})
    /\ [][(Aborted \/ Skipped) =>
              (queried' = queried /\ frontend' = frontend /\ pc' = pc /\ rpc' = rpc)]_vars

\* FPInstructions skipped the unit: its parse() warned of a missing optional
\* metric, and nothing else was emitted.
C19_Witness ==
    /\ rule = "FPInstructions"
    /\ Skipped
    /\ NumWarnings = 1
    /\ Len(frontend) = 1

----------------------------------------------------------------------------
(* C20 *)

\* Both calls of parse() have ended.
BothEnded == previous # NoCall /\ pc # "loop"

\* No name is requested twice.
DistinctNames == \A i, j \in DOMAIN requests : requests[i].name = requests[j].name => i = j

----------------------------------------------------------------------------
(* C21 *)

\* The default values _create_fallback_metric can give a type to; None asks
\* for no fallback.
SupportedDefault(value) ==
    \/ value = PyNone
    \/ isinstance_int(value) /\ value.v >= 0
    \/ value.type = "float"
    \/ value.type = "str"

\* C21: a MetricRequest whose default_value is neither a non-negative int, a
\* float nor a string cannot be constructed, so no batch for which parse()
\* returns a table holds one, whether or not its metric is in the catalog.
C21_RejectedAtConstruction ==
    pc = "returned" => \A i \in DOMAIN requests : SupportedDefault(requests[i].default_value)

----------------------------------------------------------------------------
(* C22 *)

\* The request parse() is about to resolve is OPTIONAL, is not in the catalog
\* and has a default value that no setter takes.
UnsupportedFallbackNext ==
    /\ pc = "loop"
    /\ idx <= Len(requests)
    /\ requests[idx].importance = OPTIONAL
    /\ Missing(catalog, requests[idx].name)
    /\ ~SupportedDefault(requests[idx].default_value)

\* C22: resolving a missing OPTIONAL request whose default has an unsupported
\* type ends parse() with an error, without a table, and leaves the catalog
\* without an entry for the name.
C22_RefusesFallback ==
    [][UnsupportedFallbackNext =>
          /\ pc' = "ValueError"
          /\ data' = data
          /\ Missing(catalog', requests[idx].name)]_vars

----------------------------------------------------------------------------
(* C23 *)

\* A later parse() on the same action has ended.
LaterEnded == previous # NoCall /\ previous.type = "earlier" /\ pc # "loop"

\* The requests are REQUIRED ones for names the host did not supply.
RequiredNotSupplied ==
    {i \in DOMAIN requests :
        requests[i].importance = REQUIRED /\ Missing(host_catalog, requests[i].name)}

\* C23: a later parse() on the same action with a REQUIRED request for a
\* counter the host did not supply never returns a table (no synthesized
\* fallback stands in for the counter); run to its end it aborts and names
\* the counter.
C23_NoLeakBetweenCalls ==
    (LaterEnded /\ RequiredNotSupplied # {}) =>
        /\ pc = "aborted"
        /\ \A i \in RequiredNotSupplied : requests[i].name \in missing_required_metrics

----------------------------------------------------------------------------
(* C24 *)

\* Both executions of parse() on the same requests have ended.
RepeatEnded == previous # NoCall /\ previous.type = "execution" /\ pc # "loop"

\* C24: the two executions end alike, emit the same sequence of messages
\* and, on abort, give the same reason, the missing names joined in the same
\* order.
C24_SameMessagesAndReason ==
    RepeatEnded =>
        /\ pc = previous.end
        /\ frontend = previous.messages
        /\ reason = previous.reason

----------------------------------------------------------------------------
(* C25 *)

\* The titles of the primary bottleneck finding of SOLBottleneck.apply.
PrimaryTitles ==
    {"Small Grid", "Latency Issue", "High Compute Throughput", "High Memory Throughput",
     "Balanced Throughput", "High Throughput"}

\* Where the frontend log holds the primary finding.
PrimaryFindings ==
    {k \in DOMAIN frontend : frontend[k].op = "message" /\ frontend[k].title \in PrimaryTitles}

\* Where the frontend log holds a call of send_dict_to_children.
Publications == {k \in DOMAIN frontend : frontend[k].op = "send_dict_to_children"}

\* C25: SOLBottleneck.apply calls send_dict_to_children at most once; once,
\* and after the finding, when it has emitted its primary finding; not at all
\* when it returned because a memory metric is absent or when a parse()
\* aborted.
C25_PublishesOnceAfterFinding ==
    rule = "SOLBottleneck" =>
        /\ Cardinality(Publications) <= 1
        /\ PrimaryFindings # {} =>
              /\ Cardinality(Publications) = 1
              /\ \A p \in PrimaryFindings, s \in Publications : p < s
        /\ PrimaryFindings = {} => Publications = {}
        /\ (rpc = "returned" /\ metrics = NoTable) => Publications = {}
        /\ pc = "aborted" => Publications = {}
        /\ Len(SentBy(ThisUnit, rule)) = Cardinality(Publications)

\* SOLBottleneck emitted its primary finding, then the NVLink warning, and
\* published last.
C25_Witness ==
    /\ rule = "SOLBottleneck"
    /\ rpc = "returned"
    /\ Len(frontend) \in Publications
    /\ \E p \in PrimaryFindings, k \in DOMAIN frontend :
          /\ p < k
          /\ frontend[k].op = "message"
          /\ frontend[k].title = "NVLink-Centric Scheduling"

----------------------------------------------------------------------------
(* C26 *)

\* C26: every alias registered in aliasToName maps to a name that is a key
\* of the backing dict, and for every key `key in table` holds exactly when
\* table[key] raises no KeyError.
C26_AliasesResolve ==
    /\ \A alias \in DOMAIN aliasToName : aliasToName[alias] \in DOMAIN data
    /\ \A key \in DictKeys : contains(data, aliasToName, key) <=> getitem(data, aliasToName, key).ok

\* A call was rejected after an aliased item had been stored, and the alias
\* is in the table and resolves.
C26_Witness ==
    /\ pc = "KeyError"
    /\ \E alias \in DOMAIN aliasToName :
          /\ contains(data, aliasToName, alias)
          /\ alias \notin DOMAIN data
          /\ getitem(data, aliasToName, alias).ok

----------------------------------------------------------------------------
(* C27 *)

\* The call table[key] = item that was made last.
LastSetitem == args.type = "setitem"

\* C27: a __setitem__ that raises KeyError leaves the stored entries and the
\* alias map as they were before the call.
C27_RejectedInsertionNoEffect ==
    [][pc' = "KeyError" => (data' = data /\ aliasToName' = aliasToName)]_vars

\* A call was rejected because the alias of its item is bound to another
\* name; the item's name is not stored and the alias still names the other.
C27_Witness ==
    /\ LastSetitem
    /\ pc = "KeyError"
    /\ args.key = args.item.name
    /\ args.item.alias \in DOMAIN aliasToName
    /\ aliasToName[args.item.alias] # args.item.name
    /\ args.item.name \notin DOMAIN data

----------------------------------------------------------------------------
(* C28 *)

\* The request parse() is about to resolve is OPTIONAL, is not in the catalog
\* and has a default value.
FallbackNext ==
    /\ pc = "loop"
    /\ idx <= Len(requests)
    /\ requests[idx].importance = OPTIONAL
    /\ Missing(catalog, requests[idx].name)
    /\ requests[idx].default_value # PyNone

\* C28: a step of parse() changes the catalog only when it resolves an
\* OPTIONAL request that is absent and has a default value, and then by adding
\* the entry of that name and nothing else; every other step leaves the
\* catalog as it is, and an entry the host supplied keeps its value.
C28_CatalogOnlyGrows ==
    /\ [][FallbackNext =>
             /\ ~Missing(catalog', requests[idx].name)
             /\ \A n \in DOMAIN catalog : n # requests[idx].name => catalog'[n] = catalog[n]]_vars
    /\ [][~FallbackNext => catalog' = catalog]_vars
    /\ [](\A n \in DOMAIN catalog : ~Missing(host_catalog, n) => catalog[n] = host_catalog[n])

\* parse() resolved an absent OPTIONAL request with a default, which is now
\* in the catalog, and an absent REQUIRED request, which is not.
C28_Witness ==
    /\ pc = "aborted"
    /\ \E n \in DOMAIN catalog : Missing(host_catalog, n) /\ ~Missing(catalog, n)
    /\ \E n \in DOMAIN catalog : Missing(catalog, n) /\ n \in missing_required_metrics

----------------------------------------------------------------------------
(* C29 *)

\* Where the frontend log holds a call that attaches to a message.
Attachments ==
    {k \in DOMAIN frontend : frontend[k].op \in {"speedup", "focus_metric", "generate_table"}}

\* Where the frontend log holds a call of fe.speedup.
SpeedupCallsLogged == {k \in DOMAIN frontend : frontend[k].op = "speedup"}

\* C29: every fe.speedup, fe.focus_metric and fe.generate_table of an apply()
\* carries the id that an earlier fe.message of the rule in the same apply()
\* returned, and no two fe.speedup calls carry the same id.
C29_AttachToOwnMessage ==
    /\ \A k \in Attachments :
          \E j \in 1..(k - 1) :
              /\ frontend[j].op = "message"
              /\ RuleLevel(frontend[j])
              /\ frontend[j].id = frontend[k].id
    /\ \A k1, k2 \in SpeedupCallsLogged : frontend[k1].id = frontend[k2].id => k1 = k2

\* An apply() emitted two findings, attached a speedup to each and a table
\* to one.
C29_Witness ==
    /\ rpc = "returned"
    /\ Cardinality(SpeedupCallsLogged) = 2
    /\ \E k \in Attachments : frontend[k].op = "generate_table"
    /\ \E k \in Attachments : frontend[k].op = "focus_metric"

----------------------------------------------------------------------------
(* C30 *)

\* C30: LocalMemoryUsage.apply is never left by a ZeroDivisionError, whatever
\* the counter values and whichever OPTIONAL metrics are present.
C30_NoDivisionByZero == rule = "LocalMemoryUsage" => rpc # "ZeroDivisionError"

====
